---- MODULE Spec2Model ----
(***************************************************************************)
(* Model of the TTS evaluation backend (backend/api/services.py and the    *)
(* derivation in backend/api/models.py): the metrics record and its        *)
(* derivation step, the five provider adapters, and TTSServiceManager.     *)
(*                                                                         *)
(* Numbers.  Raw timings are integer milliseconds.  Values the code        *)
(* computes by division are exact rationals [num, den] in lowest terms     *)
(* (Python floats without rounding error).  A standard deviation is kept   *)
(* as [sqrt |-> r], the non-negative square root of the rational r; two    *)
(* such values are equal exactly when their radicands are.                 *)
(* An Optional value is <<>> (None) or <<v>>.                              *)
(***************************************************************************)
EXTENDS Integers, Sequences, FiniteSets, TLC

VARIABLES
    credentials,   \* backends whose credentials are present in the environment
    ncalls,        \* entry-point calls the process has made so far
    providers,     \* TTSServiceManager._providers: backend id -> Optional adapter
    constructed,   \* per backend id, how many times its adapter class was constructed
    now,           \* time.perf_counter() * 1000 of the running process
    pc,            \* position of the single thread of control
    entry,         \* the public entry point being executed and its arguments
    idx,           \* synthesize_multiple: index of the configuration being processed
    frame,         \* locals of the adapter call in progress
    results,       \* results built so far by the entry point (its return value)
    issued,        \* vendor requests issued by the running entry point, in order
    inflight,      \* indices (into issued) of requests whose call has not completed
    raw,           \* derivation: the raw record the derivation started from
    rec,           \* derivation: the TTSMetrics record being derived
    ev,            \* derivation: the TTSEvaluation row holding the same raw fields
    once,          \* derivation: rec as the first derivation run left it (Optional)
    runs,          \* derivation: <<runs on rec, runs on ev>>
    evaluations,   \* reports: the stored TTSEvaluation rows of one provider
    report,        \* reports: the response of the metrics view that ran
    threads,       \* threaded server: each thread's position in get_provider
    streams,       \* threaded server: the locals of each concurrent streaming call
    payload,       \* audio fields: the bytes, base64 text and size of a built result
    session        \* batch endpoint: the evaluation session of one request

vars == <<credentials, ncalls, providers, constructed, now, pc, entry, idx, frame,
          results, issued, inflight, raw, rec, ev, once, runs, evaluations, report,
          threads, streams, payload, session>>

managerVars == <<credentials, ncalls, providers, constructed, now, pc, entry, idx, frame,
                 results, issued, inflight>>
reportVars == <<evaluations, report>>
concurrentVars == <<threads, streams>>
endpointVars == <<payload, session>>
\* the state outside the single-threaded manager: the derivation, the reports
\* and the threads of a threaded server
deriveVars == <<raw, rec, ev, once, runs, evaluations, report, threads, streams,
               payload, session>>

----------------------------------------------------------------------------
(* Optional values, rationals, sequences of numbers *)

None == <<>>
Some(v) == <<v>>
IsNone(o) == o = <<>>
Val(o) == o[1]

Abs(n) == IF n < 0 THEN -n ELSE n

RECURSIVE GCD(_, _)
GCD(a, b) == IF b = 0 THEN a ELSE GCD(b, a % b)

\* the rational n/d (d # 0) in lowest terms with a positive denominator
Rat(n, d) ==
    LET s == IF d < 0 THEN -1 ELSE 1
        g == GCD(Abs(n), Abs(d))
    IN  [num |-> (s * n) \div g, den |-> (s * d) \div g]

RatInt(n) == Rat(n, 1)
RatMul(a, b) == Rat(a.num * b.num, a.den * b.den)
RatDiv(a, b) == Rat(a.num * b.den, a.den * b.num)
RatLE(a, b) == a.num * b.den <= b.num * a.den
RatIsZero(a) == a.num = 0

Sqrt(r) == [sqrt |-> r]

\* sums and extremes fold the sequence by halves
RECURSIVE SumSeq(_)
SumSeq(s) ==
    IF Len(s) = 0 THEN 0
    ELSE IF Len(s) = 1 THEN s[1]
    ELSE LET h == Len(s) \div 2
         IN  SumSeq(SubSeq(s, 1, h)) + SumSeq(SubSeq(s, h + 1, Len(s)))

RECURSIVE SumSquares(_)
SumSquares(s) ==
    IF Len(s) = 0 THEN 0
    ELSE IF Len(s) = 1 THEN s[1] * s[1]
    ELSE LET h == Len(s) \div 2
         IN  SumSquares(SubSeq(s, 1, h)) + SumSquares(SubSeq(s, h + 1, Len(s)))

RECURSIVE MinSeq(_)
MinSeq(s) ==
    IF Len(s) = 1 THEN s[1]
    ELSE LET h == Len(s) \div 2
             a == MinSeq(SubSeq(s, 1, h))
             b == MinSeq(SubSeq(s, h + 1, Len(s)))
         IN  IF a <= b THEN a ELSE b

RECURSIVE MaxSeq(_)
MaxSeq(s) ==
    IF Len(s) = 1 THEN s[1]
    ELSE LET h == Len(s) \div 2
             a == MaxSeq(SubSeq(s, 1, h))
             b == MaxSeq(SubSeq(s, h + 1, Len(s)))
         IN  IF a >= b THEN a ELSE b

\* statistics.mean(s) and sum(s) / len(s), s non-empty
Mean(s) == Rat(SumSeq(s), Len(s))

\* statistics.stdev(s): the sample standard deviation, divisor len(s) - 1
\*   sum((x - mean)^2) / (n - 1) = (n * sum(x^2) - sum(x)^2) / (n * (n - 1))
Stdev(s) ==
    LET n == Len(s)
    IN  Sqrt(Rat(n * SumSquares(s) - SumSeq(s) * SumSeq(s), n * (n - 1)))

\* (sum((d - mean) ** 2 for d in s) / len(s)) ** 0.5: divisor len(s)
\*   sum((x - mean)^2) / n = (n * sum(x^2) - sum(x)^2) / (n * n)
PopulationStdev(s) ==
    LET n == Len(s)
    IN  Sqrt(Rat(n * SumSquares(s) - SumSeq(s) * SumSeq(s), n * n))

----------------------------------------------------------------------------
(* TTSMetrics and its derivation step *)

\* TTSMetrics(): the dataclass defaults
TTSMetrics ==
    [ time_to_first_byte   |-> None,
      time_to_first_audio  |-> None,
      total_synthesis_time |-> None,
      network_latency      |-> None,
      audio_duration       |-> None,     \* seconds, a rational
      audio_size           |-> None,
      audio_format         |-> "mp3",
      sample_rate          |-> None,
      bitrate              |-> None,
      is_streaming         |-> FALSE,
      chunk_count          |-> None,
      avg_chunk_size       |-> None,
      chunk_timings        |-> <<>>,
      playback_jitter      |-> None,
      min_chunk_delay      |-> None,
      max_chunk_delay      |-> None,
      avg_chunk_delay      |-> None,
      character_count      |-> 0,
      word_count           |-> 0,
      chars_per_second     |-> None,
      realtime_factor      |-> None ]

RawFields ==
    { "time_to_first_byte", "time_to_first_audio", "total_synthesis_time",
      "network_latency", "audio_duration", "audio_size", "audio_format",
      "sample_rate", "bitrate", "is_streaming", "chunk_count", "avg_chunk_size",
      "chunk_timings", "character_count", "word_count" }

DerivedFields ==
    { "chars_per_second", "realtime_factor", "min_chunk_delay", "max_chunk_delay",
      "avg_chunk_delay", "playback_jitter" }

JitterFields ==
    { "min_chunk_delay", "max_chunk_delay", "avg_chunk_delay", "playback_jitter" }

\* delays = [t[i] - t[i-1] for i in range(1, len(t))]
Delays(t) == [i \in 1 .. (Len(t) - 1) |-> t[i + 1] - t[i]]

\* Python truth value of an Optional number held in total_synthesis_time
Truthy(o) == ~IsNone(o) /\ Val(o) # 0

\* mutant: chars_per_second is left in characters per millisecond
DeriveThroughput_PerMillisecond(m) ==
    IF Truthy(m.total_synthesis_time) /\ Val(m.total_synthesis_time) > 0
    THEN LET tst == Val(m.total_synthesis_time)
             m1 == IF m.character_count # 0
                   THEN [m EXCEPT !.chars_per_second =
                            Some(Rat(m.character_count, tst))]
                   ELSE m
         IN  IF ~IsNone(m1.audio_duration) /\ ~RatIsZero(Val(m1.audio_duration))
             THEN [m1 EXCEPT !.realtime_factor =
                      Some(RatDiv(Val(m1.audio_duration), Rat(tst, 1000)))]
             ELSE m1
    ELSE m

\* the throughput part shared by both derivations
DeriveThroughput(m) ==
    IF Truthy(m.total_synthesis_time) /\ Val(m.total_synthesis_time) > 0
    THEN LET tst == Val(m.total_synthesis_time)
             m1 == IF m.character_count # 0
                   THEN [m EXCEPT !.chars_per_second =
                            Some(RatMul(Rat(m.character_count, tst), RatInt(1000)))]
                   ELSE m
         IN  IF ~IsNone(m1.audio_duration) /\ ~RatIsZero(Val(m1.audio_duration))
             THEN [m1 EXCEPT !.realtime_factor =
                      Some(RatDiv(Val(m1.audio_duration), Rat(tst, 1000)))]
             ELSE m1
    ELSE m

\* mutant: a single delay leaves playback_jitter unset instead of 0.0
CalculateDerivedMetrics_NoZeroJitter(m) ==
    LET m2 == DeriveThroughput(m)
        t  == m2.chunk_timings
    IN  IF t # <<>> /\ Len(t) > 1
        THEN LET delays == Delays(t)
             IN  [m2 EXCEPT
                     !.min_chunk_delay = Some(MinSeq(delays)),
                     !.max_chunk_delay = Some(MaxSeq(delays)),
                     !.avg_chunk_delay = Some(Mean(delays)),
                     !.playback_jitter =
                         IF Len(delays) > 1 THEN Some(Stdev(delays)) ELSE @]
        ELSE m2

\* mutant: the delays are written back over chunk_timings
CalculateDerivedMetrics_InPlace(m) ==
    LET m2 == DeriveThroughput(m)
        t  == m2.chunk_timings
    IN  IF t # <<>> /\ Len(t) > 1
        THEN LET delays == Delays(t)
             IN  [m2 EXCEPT
                     !.chunk_timings = delays,
                     !.min_chunk_delay = Some(MinSeq(delays)),
                     !.max_chunk_delay = Some(MaxSeq(delays)),
                     !.avg_chunk_delay = Some(Mean(delays)),
                     !.playback_jitter =
                         Some(IF Len(delays) > 1 THEN Stdev(delays)
                              ELSE Sqrt(RatInt(0)))]
        ELSE m2

\* TTSMetrics.calculate_derived_metrics
CalculateDerivedMetrics(m) ==
    LET m2 == DeriveThroughput(m)
        t  == m2.chunk_timings
    IN  IF t # <<>> /\ Len(t) > 1
        THEN LET delays == Delays(t)
             IN  IF delays # <<>>
                 THEN [m2 EXCEPT
                          !.min_chunk_delay = Some(MinSeq(delays)),
                          !.max_chunk_delay = Some(MaxSeq(delays)),
                          !.avg_chunk_delay = Some(Mean(delays)),
                          !.playback_jitter =
                              Some(IF Len(delays) > 1 THEN Stdev(delays)
                                   ELSE Sqrt(RatInt(0)))]
                 ELSE m2
        ELSE m2

\* TTSEvaluation.calculate_derived_metrics (the stored row's own derivation)
EvaluationCalculateDerivedMetrics(m) ==
    LET m2 == DeriveThroughput(m)
        t  == m2.chunk_timings
    IN  IF t # <<>> /\ Len(t) > 1
        THEN LET delays == Delays(t)
             IN  IF delays # <<>>
                 THEN [m2 EXCEPT
                          !.min_chunk_delay = Some(MinSeq(delays)),
                          !.max_chunk_delay = Some(MaxSeq(delays)),
                          !.avg_chunk_delay = Some(Rat(SumSeq(delays), Len(delays))),
                          !.playback_jitter = Some(PopulationStdev(delays))]
                 ELSE m2
        ELSE m2

----------------------------------------------------------------------------
(* Bounds of the model *)

MaxCalls == 2        \* entry-point calls one process makes
MaxConfigs == 2      \* longest configuration list given to synthesize_multiple
MaxChunks == 2       \* most non-empty increments one streamed body delivers
MaxStart == 1        \* largest clock reading when an entry point is called
MaxTick == 1         \* largest clock advance between two readings
MaxClock == 3        \* largest clock reading while an entry point runs
MaxTimings == 3      \* derivation: longest chunk_timings sequence
MaxTime == 3         \* derivation: largest chunk timestamp
MaxRuns == 2         \* derivation: most runs of the derivation on one record
MaxRows == 101       \* reports: most stored evaluation rows of one provider
MaxThreads == 2      \* threaded server: threads resolving adapters
MaxResolves == 2     \* threaded server: most get_provider calls of one thread
MaxStreams == 2      \* threaded server: concurrent streaming calls on one adapter
MaxBody == 4         \* audio fields: most bytes of a vendor body
MaxBatch == 2        \* batch endpoint: most provider configurations of a request

----------------------------------------------------------------------------
(* Text analysis, audio duration, results *)

\* texts are sequences of characters; lengths are multiples of 10 so that the
\* demo-mode products len(text) * (k + random()) are whole milliseconds
Texts10 == <<"h", "e", "l", "l", "o", " ", "t", "t", "s", "!">>
Texts == { <<>>, Texts10 }

\* BaseTTSProvider.get_text_metrics: (len(text), len(text.split()))
GetTextMetrics(text) ==
    [ char_count |-> Len(text),
      word_count |-> Cardinality({ i \in 1 .. Len(text) :
                         text[i] # " " /\ (i = 1 \/ text[i - 1] = " ") }) ]

\* audio bytes are represented by their length
Audio(n) == [len |-> n]
\* base64.b64encode(audio).decode('utf-8')
B64Encode(audio) == [b64_of |-> audio]

\* durations (seconds) the pydub decoder can report for a body it decodes
DecodedDurations == { RatInt(1) }

\* get_audio_duration(audio_data, audio_format): the set of possible outcomes,
\* the decoder's reading or, when decoding raises, the bitrate estimate
GetAudioDuration(audio, audio_format) ==
    { Some(d) : d \in DecodedDurations }
    \cup { CASE audio_format = "mp3" -> Some(Rat(audio.len, 16000))
             [] audio_format = "wav" -> Some(Rat(audio.len, 44100))
             [] audio_format = "ogg" -> Some(Rat(audio.len, 12000))
             [] OTHER -> None }

\* TTSResult(success=..., ...) with the dataclass defaults for what is not given
TTSResult(success, given) ==
    [ f \in { "success", "audio_data", "audio_base64", "metrics", "error_message",
              "provider_id", "voice_id", "model_id", "has_headers" } |->
        IF f = "success" THEN success
        ELSE IF f \in DOMAIN given THEN given[f]
        ELSE CASE f = "audio_data" -> None
               [] f = "audio_base64" -> None
               [] f = "metrics" -> TTSMetrics
               [] f = "error_message" -> <<>>      \* ''
               [] f = "provider_id" -> ""
               [] f = "voice_id" -> Some("")       \* '' (None is an absent voice id)
               [] f = "model_id" -> ""
               [] f = "has_headers" -> FALSE ]     \* response_headers given

----------------------------------------------------------------------------
(* The provider adapters *)

\* the keys of the provider_class registry in TTSServiceManager.get_provider
KnownIds == { "elevenlabs", "google", "azure", "amazon", "openai" }
BackendIds == KnownIds \cup { "not_a_real_backend" }

\* voice identifiers; None is what config.get('voice_id') gives for a
\* configuration without a 'voice_id' key
VoiceIds == { Some("v1"), None }

\* option maps (**kwargs): none, or a caller naming a model and an engine
NoOptions == [k \in {} |-> ""]
OptionMaps ==
    { NoOptions,
      [k \in { "model_id", "model", "engine" } |->
          CASE k = "model_id" -> "eleven_turbo_v2"
            [] k = "model" -> "tts-1-hd"
            [] k = "engine" -> "standard"] }

\* kwargs.get(key, default)
KwGet(options, key, default) == IF key \in DOMAIN options THEN options[key] ELSE default

\* the model an adapter uses: elevenlabs kwargs.get('model_id', ...), openai
\* kwargs.get('model', 'tts-1'); the other adapters take no model option
ModelOf(pid, options) ==
    CASE pid = "elevenlabs" -> KwGet(options, "model_id", "eleven_multilingual_v2")
      [] pid = "openai" -> KwGet(options, "model", "tts-1")
      [] OTHER -> ""

\* mutant: every adapter reads its body incrementally when streaming is asked
NativeStreaming_All == { "elevenlabs", "google", "azure", "amazon", "openai" }

\* adapters whose synthesize_streaming reads the body incrementally; google and
\* azure return self.synthesize(text, voice_id, **kwargs)
NativeStreaming == { "elevenlabs", "amazon", "openai" }

\* random.random() draws, in fifths: n stands for n/5
RandomFifths == { 0, 4 }

\* the constants of each adapter's _demo_synthesis
\*   ttfb = b0 + random * b1;  ttfa = ttfb + a0 + random * a1
\*   total = ttfa + len(text) * (c10 / 10 + random);  audio_duration = len * d1000 / 1000
\*   audio_size = int(len * size)
DemoProfile(pid) ==
    CASE pid = "elevenlabs" ->
            [b0 |-> 50, b1 |-> 100, a0 |-> 20, a1 |-> 50, c10 |-> 20, d1000 |-> 60,
             size |-> 150, sample_rate |-> 44100, bitrate |-> None]
      [] pid = "google" ->
            [b0 |-> 60, b1 |-> 80, a0 |-> 30, a1 |-> 40, c10 |-> 15, d1000 |-> 55,
             size |-> 140, sample_rate |-> 24000, bitrate |-> None]
      [] pid = "azure" ->
            [b0 |-> 70, b1 |-> 90, a0 |-> 25, a1 |-> 45, c10 |-> 18, d1000 |-> 58,
             size |-> 160, sample_rate |-> 16000, bitrate |-> Some(128)]
      [] pid = "amazon" ->
            [b0 |-> 55, b1 |-> 75, a0 |-> 20, a1 |-> 35, c10 |-> 12, d1000 |-> 52,
             size |-> 130, sample_rate |-> 22050, bitrate |-> None]
      [] pid = "openai" ->
            [b0 |-> 80, b1 |-> 120, a0 |-> 30, a1 |-> 60, c10 |-> 25, d1000 |-> 65,
             size |-> 170, sample_rate |-> 24000, bitrate |-> None]

\* BaseTTSProvider._generate_demo_audio: a 44-byte WAV header and
\* int(22050 * len(text) * 0.05) * 2 bytes of silence
GenerateDemoAudio(text) == Audio(44 + ((22050 * Len(text) * 5) \div 100) * 2)

\* the metrics object every synthesize / synthesize_streaming starts with
NewMetrics(text, streaming) ==
    [TTSMetrics EXCEPT
        !.is_streaming = streaming,
        !.character_count = GetTextMetrics(text).char_count,
        !.word_count = GetTextMetrics(text).word_count]

\* mutant: the simulated time_to_first_audio is the time_to_first_byte itself
DemoRawMetrics_NoAudioOffset(pid, text, metrics, r1, r2, r3) ==
    LET p == DemoProfile(pid)
        ttfb == p.b0 + (p.b1 * r1) \div 5
        ttfa == ttfb
        total == ttfa + (Len(text) * (p.c10 + 2 * r3)) \div 10
    IN  [metrics EXCEPT
            !.time_to_first_byte = Some(ttfb),
            !.time_to_first_audio = Some(ttfa),
            !.total_synthesis_time = Some(total),
            !.audio_duration = Some(Rat(Len(text) * p.d1000, 1000)),
            !.audio_size = Some(Len(text) * p.size),
            !.audio_format = "mp3",
            !.sample_rate = Some(p.sample_rate),
            !.bitrate = IF IsNone(p.bitrate) THEN @ ELSE p.bitrate]

\* the raw fields _demo_synthesis assigns from three random draws r1, r2, r3
DemoRawMetrics(pid, text, metrics, r1, r2, r3) ==
    LET p == DemoProfile(pid)
        ttfb == p.b0 + (p.b1 * r1) \div 5
        ttfa == ttfb + p.a0 + (p.a1 * r2) \div 5
        total == ttfa + (Len(text) * (p.c10 + 2 * r3)) \div 10
    IN  [metrics EXCEPT
            !.time_to_first_byte = Some(ttfb),
            !.time_to_first_audio = Some(ttfa),
            !.total_synthesis_time = Some(total),
            !.audio_duration = Some(Rat(Len(text) * p.d1000, 1000)),
            !.audio_size = Some(Len(text) * p.size),
            !.audio_format = "mp3",
            !.sample_rate = Some(p.sample_rate),
            !.bitrate = IF IsNone(p.bitrate) THEN @ ELSE p.bitrate]

\* <Provider>._demo_synthesis(text, voice_id, metrics[, model])
DemoSynthesis(pid, text, voice_id, metrics, model, r1, r2, r3) ==
    LET audio_data == GenerateDemoAudio(text)
        given == [f \in { "audio_data", "audio_base64", "metrics", "provider_id",
                          "voice_id", "model_id", "error_message" } |->
                    CASE f = "audio_data" -> Some(audio_data)
                      [] f = "audio_base64" -> Some(B64Encode(audio_data))
                      [] f = "metrics" ->
                           CalculateDerivedMetrics(
                               DemoRawMetrics(pid, text, metrics, r1, r2, r3))
                      [] f = "provider_id" -> pid
                      [] f = "voice_id" -> voice_id
                      [] f = "model_id" -> model
                      [] f = "error_message" ->
                           <<"DEMO MODE: Using simulated metrics">>]
    IN  TTSResult(TRUE, given)

\* the failure results of the live paths: TTSResult(success=False, metrics=...,
\* error_message=..., provider_id=..., voice_id=...[, model_id=...])
FailureResult(pid, voice_id, metrics, message, model) ==
    TTSResult(FALSE,
        [f \in { "metrics", "error_message", "provider_id", "voice_id", "model_id" } |->
            CASE f = "metrics" -> metrics
              [] f = "error_message" -> message
              [] f = "provider_id" -> pid
              [] f = "voice_id" -> voice_id
              [] f = "model_id" -> model])

\* mutant: a live success carries a status note in error_message
SuccessResult_WithNote(pid, voice_id, metrics, audio_data, model, headers) ==
    TTSResult(TRUE,
        [f \in { "audio_data", "audio_base64", "metrics", "provider_id", "voice_id",
                 "model_id", "has_headers", "error_message" } |->
            CASE f = "audio_data" -> Some(audio_data)
              [] f = "audio_base64" -> Some(B64Encode(audio_data))
              [] f = "metrics" -> metrics
              [] f = "provider_id" -> pid
              [] f = "voice_id" -> voice_id
              [] f = "model_id" -> model
              [] f = "has_headers" -> headers
              [] f = "error_message" -> <<"OK">>])

\* the success results of the live paths
SuccessResult(pid, voice_id, metrics, audio_data, model, headers) ==
    TTSResult(TRUE,
        [f \in { "audio_data", "audio_base64", "metrics", "provider_id", "voice_id",
                 "model_id", "has_headers" } |->
            CASE f = "audio_data" -> Some(audio_data)
              [] f = "audio_base64" -> Some(B64Encode(audio_data))
              [] f = "metrics" -> metrics
              [] f = "provider_id" -> pid
              [] f = "voice_id" -> voice_id
              [] f = "model_id" -> model
              [] f = "has_headers" -> headers])

\* GoogleTTSProvider._get_full_voice_name evaluates '-' in voice_id before the
\* try block and before the demo-mode test: with voice_id None it raises
\* TypeError, which no handler of the adapter or of the manager catches
PreambleRaises(pid, voice_id) == pid = "google" /\ IsNone(voice_id)

\* model_id of the result built in an except handler: the openai adapter's
\* handlers do not pass model_id
ExceptModel(pid, model) == IF pid = "openai" THEN "" ELSE model

----------------------------------------------------------------------------
(* TTSServiceManager *)

\* <Provider>.__init__: credentials are read once, demo_mode = not credentials
\* (for amazon: not both keys, or boto3 missing); serial tells instances apart
NewProvider(pid, cons) ==
    [ provider_id |-> pid,
      serial      |-> cons[pid] + 1,
      has_key     |-> pid \in credentials,
      demo_mode   |-> pid \notin credentials ]

\* mutant: a cached adapter re-reads the credentials on every resolution
GetProviderIn_RereadsEnv(provs, cons, pid) ==
    IF pid \notin DOMAIN provs /\ pid \in KnownIds
    THEN [ providers   |-> provs @@ (pid :> NewProvider(pid, cons)),
           constructed |-> [cons EXCEPT ![pid] = @ + 1],
           ret         |-> Some(NewProvider(pid, cons)) ]
    ELSE IF pid \in DOMAIN provs
    THEN LET a == [provs[pid] EXCEPT !.has_key = pid \in credentials,
                                     !.demo_mode = pid \notin credentials]
         IN  [ providers   |-> [provs EXCEPT ![pid] = a],
               constructed |-> cons,
               ret         |-> Some(a) ]
    ELSE [ providers |-> provs, constructed |-> cons, ret |-> None ]

\* mutant: the cache test is missing, every resolution constructs anew
GetProviderIn_NoCacheTest(provs, cons, pid) ==
    IF pid \in KnownIds
    THEN [ providers   |-> (pid :> NewProvider(pid, cons)) @@ provs,
           constructed |-> [cons EXCEPT ![pid] = @ + 1],
           ret         |-> Some(NewProvider(pid, cons)) ]
    ELSE [ providers |-> provs, constructed |-> cons, ret |-> None ]

\* TTSServiceManager.get_provider(provider_id) on cache provs: the cache and the
\* construction counts after the call, and the value returned
\* (cls._providers.get(provider_id))
GetProviderIn(provs, cons, pid) ==
    IF pid \notin DOMAIN provs /\ pid \in KnownIds
    THEN [ providers   |-> provs @@ (pid :> NewProvider(pid, cons)),
           constructed |-> [cons EXCEPT ![pid] = @ + 1],
           ret         |-> Some(NewProvider(pid, cons)) ]
    ELSE [ providers   |-> provs,
           constructed |-> cons,
           ret         |-> IF pid \in DOMAIN provs THEN Some(provs[pid]) ELSE None ]

GetProvider(pid) == GetProviderIn(providers, constructed, pid)

\* TTSServiceManager.get_all_providers:
\*   [cls.get_provider(pid) for pid in provider_ids if cls.get_provider(pid)]
\* the condition's call first, then the element's call, for each id in order
RECURSIVE GetAllProvidersIn(_, _, _)
GetAllProvidersIn(ids, provs, cons) ==
    IF ids = <<>> THEN [providers |-> provs, constructed |-> cons, ret |-> <<>>]
    ELSE LET g1 == GetProviderIn(provs, cons, Head(ids))
             g2 == GetProviderIn(g1.providers, g1.constructed, Head(ids))
             rest == GetAllProvidersIn(Tail(ids), g2.providers, g2.constructed)
         IN  [rest EXCEPT !.ret = IF IsNone(g1.ret) THEN @ ELSE <<g2.ret>> \o @]

AllProviderIds == <<"elevenlabs", "google", "azure", "amazon", "openai">>

\* mutant: the message does not name the identifier
UnknownProviderResult_NoId(pid) ==
    TTSResult(FALSE,
        [f \in { "error_message", "provider_id" } |->
            IF f = "error_message" THEN <<"Unknown provider">> ELSE pid])

\* TTSServiceManager.synthesize: the result manufactured for an unknown provider
UnknownProviderResult(pid) ==
    TTSResult(FALSE,
        [f \in { "error_message", "provider_id" } |->
            IF f = "error_message" THEN <<"Unknown provider: ", pid>> ELSE pid])

\* whether the call goes down an adapter's incremental-read path
StreamingPath(pid, streaming) == streaming /\ pid \in NativeStreaming

NoEntry == [op |-> "none", provider_id |-> "", text |-> <<>>, configs |-> <<>>,
            streaming |-> FALSE, ret |-> <<>>, voices |-> ""]

Config(pid, voice_id, options) ==
    [provider_id |-> pid, voice_id |-> voice_id, options |-> options]

\* the configuration the loop of synthesize_multiple (or the single call) is at
Cfg == entry.configs[idx]

\* the call for the current configuration has produced result r: it is
\* returned (synthesize) or appended and the loop goes on (synthesize_multiple)
Complete(r) ==
    /\ results' = Append(results, r)
    /\ IF entry.op = "synthesize_multiple" /\ idx < Len(entry.configs)
       THEN idx' = idx + 1 /\ pc' = "dispatch"
       ELSE idx' = idx /\ pc' = "returned"

\* the clock readings an advance of d leads to
Ticks == { d \in 0 .. MaxTick : now + d <= MaxClock }

\* a caller resolves one provider
CallGetProvider(pid) ==
    /\ pc = "idle"
    /\ ncalls < MaxCalls
    /\ ncalls' = ncalls + 1
    /\ LET g == GetProvider(pid)
       IN  /\ providers' = g.providers
           /\ constructed' = g.constructed
           /\ entry' = [NoEntry EXCEPT !.op = "get_provider", !.provider_id = pid,
                                     !.ret = <<g.ret>>]
    /\ pc' = "returned"
    /\ UNCHANGED <<credentials, now, idx, frame, results, issued, inflight>>
    /\ UNCHANGED deriveVars

\* a caller asks for all providers
CallGetAllProviders ==
    /\ pc = "idle"
    /\ ncalls < MaxCalls
    /\ ncalls' = ncalls + 1
    /\ LET g == GetAllProvidersIn(AllProviderIds, providers, constructed)
       IN  /\ providers' = g.providers
           /\ constructed' = g.constructed
           /\ entry' = [NoEntry EXCEPT !.op = "get_all_providers", !.ret = g.ret]
    /\ pc' = "returned"
    /\ UNCHANGED <<credentials, now, idx, frame, results, issued, inflight>>
    /\ UNCHANGED deriveVars

\* TTSServiceManager.synthesize(provider_id, text, voice_id, streaming, **options)
CallSynthesize(pid, text, voice_id, streaming, options, t0) ==
    /\ pc = "idle"
    /\ ncalls < MaxCalls
    /\ ncalls' = ncalls + 1
    /\ entry' = [NoEntry EXCEPT
                    !.op = "synthesize", !.provider_id = pid, !.text = text,
                    !.streaming = streaming,
                    !.configs = <<Config(pid, voice_id, options)>>]
    /\ idx' = 1
    /\ now' = t0
    /\ pc' = "dispatch"
    /\ UNCHANGED <<credentials, providers, constructed, frame, results, issued,
                   inflight>>
    /\ UNCHANGED deriveVars

\* TTSServiceManager.synthesize_multiple(text, provider_configs, streaming)
CallSynthesizeMultiple(text, configs, streaming, t0) ==
    /\ pc = "idle"
    /\ ncalls < MaxCalls
    /\ ncalls' = ncalls + 1
    /\ entry' = [NoEntry EXCEPT
                    !.op = "synthesize_multiple", !.text = text,
                    !.streaming = streaming, !.configs = configs]
    /\ idx' = 1
    /\ now' = t0
    /\ pc' = IF configs = <<>> THEN "returned" ELSE "dispatch"
    /\ UNCHANGED <<credentials, providers, constructed, frame, results, issued,
                   inflight>>
    /\ UNCHANGED deriveVars

\* synthesize: get_provider returns None, the failure result is manufactured
DispatchUnknown ==
    /\ pc = "dispatch"
    /\ LET g == GetProvider(Cfg.provider_id)
       IN  /\ IsNone(g.ret)
           /\ providers' = g.providers
           /\ constructed' = g.constructed
           /\ Complete(UnknownProviderResult(Cfg.provider_id))
    /\ UNCHANGED <<credentials, ncalls, now, entry, frame, issued, inflight>>
    /\ UNCHANGED deriveVars

\* synthesize: the adapter is resolved and its method raises before any handler
DispatchRaise ==
    /\ pc = "dispatch"
    /\ LET g == GetProvider(Cfg.provider_id)
       IN  /\ ~IsNone(g.ret)
           /\ PreambleRaises(Cfg.provider_id, Cfg.voice_id)
           /\ providers' = g.providers
           /\ constructed' = g.constructed
    /\ pc' = "raised"
    /\ UNCHANGED <<credentials, ncalls, now, entry, idx, frame, results, issued, inflight>>
    /\ UNCHANGED deriveVars

\* synthesize: the adapter is in demo mode and simulates the result
DispatchDemo(r1, r2, r3) ==
    /\ pc = "dispatch"
    /\ LET g == GetProvider(Cfg.provider_id)
           pid == Cfg.provider_id
       IN  /\ ~IsNone(g.ret)
           /\ ~PreambleRaises(pid, Cfg.voice_id)
           /\ Val(g.ret).demo_mode
           /\ providers' = g.providers
           /\ constructed' = g.constructed
           /\ Complete(DemoSynthesis(pid, entry.text, Cfg.voice_id,
                          NewMetrics(entry.text, StreamingPath(pid, entry.streaming)),
                          ModelOf(pid, Cfg.options), r1, r2, r3))
    /\ UNCHANGED <<credentials, ncalls, now, entry, frame, issued, inflight>>
    /\ UNCHANGED deriveVars

\* mutant: the amazon request takes the engine the caller names
VendorRequest_CallerEngine(pid, streaming) ==
    [ backend |-> pid, config |-> idx, stream |-> StreamingPath(pid, streaming),
      engine |-> IF pid = "amazon"
                 THEN KwGet(Cfg.options, "engine", "generative") ELSE "" ]

\* the request an adapter sends: amazon names the engine, always 'generative'
VendorRequest(pid, streaming) ==
    [ backend |-> pid, config |-> idx, stream |-> StreamingPath(pid, streaming),
      engine |-> IF pid = "amazon" THEN "generative" ELSE "" ]

\* synthesize: the adapter is live; it records start_time and issues the request
DispatchLive ==
    /\ pc = "dispatch"
    /\ LET g == GetProvider(Cfg.provider_id)
           pid == Cfg.provider_id
       IN  /\ ~IsNone(g.ret)
           /\ ~PreambleRaises(pid, Cfg.voice_id)
           /\ ~Val(g.ret).demo_mode
           /\ providers' = g.providers
           /\ constructed' = g.constructed
           /\ frame' = Some([ pid |-> pid,
                              voice_id |-> Cfg.voice_id,
                              model |-> ModelOf(pid, Cfg.options),
                              stream |-> StreamingPath(pid, entry.streaming),
                              metrics |-> NewMetrics(entry.text,
                                              StreamingPath(pid, entry.streaming)),
                              start_time |-> now,
                              chunks |-> <<>>,
                              chunk_sizes |-> <<>>,
                              first_chunk_received |-> FALSE ])
           /\ issued' = Append(issued, VendorRequest(pid, entry.streaming))
           /\ inflight' = inflight \cup { Len(issued) + 1 }
    /\ pc' = "await"
    /\ UNCHANGED <<credentials, ncalls, now, entry, idx, results>>
    /\ UNCHANGED deriveVars

----------------------------------------------------------------------------
(* The live call: response, body, result *)

F == Val(frame)

\* the statuses and bodies of vendor answers that are not a success
ErrorStatuses == { "500" }
\* str(e) of the exceptions the transport raises; an exception built without
\* arguments has the empty string
ExceptionTexts == { "Connection timed out", "" }
\* error_message=str(e), as the list of its parts ('' has none)
ExceptionMessage(msg) == IF msg = "" THEN <<>> ELSE <<msg>>
\* sizes of a complete body, and of one non-empty increment of a streamed body
BodySizes == { 0, 32000 }
ChunkSizes == { 512, 1024 }

\* the error message for a vendor answer that is not a success
StatusMessage(pid, stream, status) ==
    IF pid = "amazon" THEN <<"No audio stream in response">>
    ELSE IF stream THEN <<"Streaming API Error ", status, ": ", "error body">>
    ELSE <<"API Error ", status, ": ", "error body">>

\* the call in progress ends with result r
EndCall(r) ==
    /\ Complete(r)
    /\ frame' = None
    /\ inflight' = inflight \ { Len(issued) }

\* mutant: the first transport failure of a call is answered by a second attempt
TransportError_Retries(d, msg) ==
    /\ pc = "await"
    /\ now' = now + d
    /\ IF Len(issued) < 2
       THEN /\ issued' = Append(issued, issued[Len(issued)])
            /\ inflight' = { Len(issued) + 1 }
            /\ UNCHANGED <<pc, idx, frame, results>>
       ELSE /\ EndCall(FailureResult(F.pid, F.voice_id, F.metrics,
                           ExceptionMessage(msg), ExceptModel(F.pid, F.model)))
            /\ UNCHANGED issued
    /\ UNCHANGED <<credentials, ncalls, providers, constructed, entry>>
    /\ UNCHANGED deriveVars

\* the request raises (connection error, timeout): except handler
TransportError(d, msg) ==
    /\ pc = "await"
    /\ now' = now + d
    /\ EndCall(FailureResult(F.pid, F.voice_id, F.metrics, ExceptionMessage(msg),
                             ExceptModel(F.pid, F.model)))
    /\ UNCHANGED <<credentials, ncalls, providers, constructed, entry, issued>>
    /\ UNCHANGED deriveVars

\* mutant: the failure result is built from a fresh record and loses the
\* time_to_first_byte measured before the status was read
ResponseError_FreshRecord(d, status) ==
    /\ pc = "await"
    /\ now' = now + d
    /\ EndCall(FailureResult(F.pid, F.voice_id,
                   NewMetrics(entry.text, F.stream),
                   StatusMessage(F.pid, F.stream, status), F.model))
    /\ UNCHANGED <<credentials, ncalls, providers, constructed, entry, issued>>
    /\ UNCHANGED deriveVars

\* the response arrives with a status that is not a success (amazon: without
\* an AudioStream): time_to_first_byte is set, the failure result is returned
ResponseError(d, status) ==
    /\ pc = "await"
    /\ now' = now + d
    /\ EndCall(FailureResult(F.pid, F.voice_id,
                   [F.metrics EXCEPT !.time_to_first_byte = Some(now' - F.start_time)],
                   StatusMessage(F.pid, F.stream, status), F.model))
    /\ UNCHANGED <<credentials, ncalls, providers, constructed, entry, issued>>
    /\ UNCHANGED deriveVars

\* mutant: time_to_first_audio is taken at the end of the body read
BatchRawMetrics_AudioAtEnd(pid, metrics, ttfb, total, audio_data, duration) ==
    [metrics EXCEPT
        !.time_to_first_byte = Some(ttfb),
        !.total_synthesis_time = Some(total),
        !.time_to_first_audio = Some(total),
        !.audio_size = Some(audio_data.len),
        !.audio_format = "mp3",
        !.sample_rate = IF pid = "azure" THEN Some(16000) ELSE @,
        !.bitrate = IF pid = "azure" THEN Some(128) ELSE @,
        !.audio_duration = duration]

\* the raw fields a successful non-streaming call assigns (azure also sets
\* sample_rate and bitrate)
BatchRawMetrics(pid, metrics, ttfb, total, audio_data, duration) ==
    [metrics EXCEPT
        !.time_to_first_byte = Some(ttfb),
        !.total_synthesis_time = Some(total),
        !.time_to_first_audio = Some(ttfb),
        !.audio_size = Some(audio_data.len),
        !.audio_format = "mp3",
        !.sample_rate = IF pid = "azure" THEN Some(16000) ELSE @,
        !.bitrate = IF pid = "azure" THEN Some(128) ELSE @,
        !.audio_duration = duration]

\* non-streaming: the response is a success, the whole body is read
ResponseOkBatch(d1, d2, size) ==
    /\ pc = "await"
    /\ ~F.stream
    /\ now + d1 + d2 <= MaxClock
    /\ now' = now + d1 + d2
    /\ \E duration \in GetAudioDuration(Audio(size), "mp3") :
         EndCall(SuccessResult(F.pid, F.voice_id,
                   CalculateDerivedMetrics(
                       BatchRawMetrics(F.pid, F.metrics, now + d1 - F.start_time,
                                       now' - F.start_time, Audio(size), duration)),
                   Audio(size), F.model, F.pid # "amazon"))
    /\ UNCHANGED <<credentials, ncalls, providers, constructed, entry, issued>>
    /\ UNCHANGED deriveVars

\* the adapters whose body read can raise after the response arrived:
\* google (response.json(), b64decode) and amazon (AudioStream.read());
\* every streaming read can (iter_content, AudioStream.read(chunk_size))
BodyReadCanRaise(pid, stream) == stream \/ pid \in { "google", "amazon" }

\* non-streaming: reading or decoding the body raises after
\* time_to_first_byte was set
BodyError(d, msg) ==
    /\ pc = "await"
    /\ ~F.stream
    /\ BodyReadCanRaise(F.pid, F.stream)
    /\ now' = now + d
    /\ EndCall(FailureResult(F.pid, F.voice_id,
                   [F.metrics EXCEPT !.time_to_first_byte = Some(now' - F.start_time)],
                   ExceptionMessage(msg), ExceptModel(F.pid, F.model)))
    /\ UNCHANGED <<credentials, ncalls, providers, constructed, entry, issued>>
    /\ UNCHANGED deriveVars

\* mutant: the result is returned at the headers, the body still unread
ResponseOkStream_ReturnsEarly(d) ==
    /\ pc = "await"
    /\ F.stream
    /\ now' = now + d
    /\ Complete(SuccessResult(F.pid, F.voice_id,
                   [F.metrics EXCEPT !.time_to_first_byte = Some(now' - F.start_time)],
                   Audio(0), F.model, F.pid # "amazon"))
    /\ frame' = None
    /\ UNCHANGED <<credentials, ncalls, providers, constructed, entry, issued,
                   inflight>>
    /\ UNCHANGED deriveVars

\* streaming: the response headers arrive with a success status
ResponseOkStream(d) ==
    /\ pc = "await"
    /\ F.stream
    /\ now' = now + d
    /\ frame' = Some([F EXCEPT
                        !.metrics.time_to_first_byte = Some(now' - F.start_time)])
    /\ pc' = "stream"
    /\ UNCHANGED <<credentials, ncalls, providers, constructed, entry, idx, results, issued,
                   inflight>>
    /\ UNCHANGED deriveVars

\* mutant: the timestamp is recorded for the first increment only
OnChunk_FirstTimingOnly(f, current_time, size) ==
    [f EXCEPT
        !.metrics.time_to_first_audio =
            IF ~f.first_chunk_received THEN Some(current_time - f.start_time) ELSE @,
        !.metrics.chunk_timings =
            IF ~f.first_chunk_received THEN Append(@, current_time - f.start_time)
            ELSE @,
        !.first_chunk_received = TRUE,
        !.chunks = Append(@, size),
        !.chunk_sizes = Append(@, size)]

\* mutant: every increment overwrites time_to_first_audio
OnChunk_LatestAudio(f, current_time, size) ==
    [f EXCEPT
        !.metrics.time_to_first_audio = Some(current_time - f.start_time),
        !.first_chunk_received = TRUE,
        !.metrics.chunk_timings = Append(@, current_time - f.start_time),
        !.chunks = Append(@, size),
        !.chunk_sizes = Append(@, size)]

\* the loop body for one non-empty increment
OnChunk(f, current_time, size) ==
    [f EXCEPT
        !.metrics.time_to_first_audio =
            IF ~f.first_chunk_received THEN Some(current_time - f.start_time) ELSE @,
        !.first_chunk_received = TRUE,
        !.metrics.chunk_timings = Append(@, current_time - f.start_time),
        !.chunks = Append(@, size),
        !.chunk_sizes = Append(@, size)]

\* streaming: one non-empty increment is read
ReadChunk(d, size) ==
    /\ pc = "stream"
    /\ Len(F.chunks) < MaxChunks
    /\ now' = now + d
    /\ frame' = Some(OnChunk(F, now', size))
    /\ UNCHANGED <<credentials, ncalls, providers, constructed, pc, entry, idx, results,
                   issued, inflight>>
    /\ UNCHANGED deriveVars

\* streaming over requests: iter_content yields an empty increment, skipped by
\* "if chunk" (for amazon an empty read ends the loop: StreamEnd)
EmptyChunk(d) ==
    /\ pc = "stream"
    /\ F.pid # "amazon"
    /\ now' = now + d
    /\ UNCHANGED <<credentials, ncalls, providers, constructed, pc, entry, idx, frame,
                   results, issued, inflight>>
    /\ UNCHANGED deriveVars

\* mutant: a stream that delivered nothing gets time_to_first_audio from
\* time_to_first_byte, as a batch read does
StreamRawMetrics_AudioDefaulted(f, total, duration) ==
    [f.metrics EXCEPT
        !.total_synthesis_time = Some(total),
        !.time_to_first_audio = IF f.chunks = <<>> THEN f.metrics.time_to_first_byte
                                ELSE @,
        !.audio_size = Some(SumSeq(f.chunks)),
        !.audio_format = "mp3",
        !.chunk_count = Some(Len(f.chunks)),
        !.avg_chunk_size = Some(IF f.chunk_sizes # <<>> THEN Mean(f.chunk_sizes)
                                ELSE RatInt(0)),
        !.audio_duration = duration]

\* the raw fields assigned once the stream is exhausted
StreamRawMetrics(f, total, duration) ==
    [f.metrics EXCEPT
        !.total_synthesis_time = Some(total),
        !.audio_size = Some(SumSeq(f.chunks)),
        !.audio_format = "mp3",
        !.chunk_count = Some(Len(f.chunks)),
        !.avg_chunk_size = Some(IF f.chunk_sizes # <<>> THEN Mean(f.chunk_sizes)
                                ELSE RatInt(0)),
        !.audio_duration = duration]

\* streaming: the body is exhausted, the result is built
StreamEnd(d) ==
    /\ pc = "stream"
    /\ now' = now + d
    /\ \E duration \in GetAudioDuration(Audio(SumSeq(F.chunks)), "mp3") :
         EndCall(SuccessResult(F.pid, F.voice_id,
                   CalculateDerivedMetrics(
                       StreamRawMetrics(F, now' - F.start_time, duration)),
                   Audio(SumSeq(F.chunks)), F.model, F.pid # "amazon"))
    /\ UNCHANGED <<credentials, ncalls, providers, constructed, entry, issued>>
    /\ UNCHANGED deriveVars

\* mutant: the except handler runs the derivation on the partial record
StreamError_Derives(d, msg) ==
    /\ pc = "stream"
    /\ now' = now + d
    /\ EndCall(FailureResult(F.pid, F.voice_id, CalculateDerivedMetrics(F.metrics),
                             ExceptionMessage(msg), ExceptModel(F.pid, F.model)))
    /\ UNCHANGED <<credentials, ncalls, providers, constructed, entry, issued>>
    /\ UNCHANGED deriveVars

\* streaming: a read raises in mid-body: except handler, with the record as
\* the increments read so far left it
StreamError(d, msg) ==
    /\ pc = "stream"
    /\ now' = now + d
    /\ EndCall(FailureResult(F.pid, F.voice_id, F.metrics, ExceptionMessage(msg),
                             ExceptModel(F.pid, F.model)))
    /\ UNCHANGED <<credentials, ncalls, providers, constructed, entry, issued>>
    /\ UNCHANGED deriveVars

\* the entry point has returned (or raised) and the caller goes on
Release ==
    /\ pc \in { "returned", "raised" }
    /\ pc' = "idle"
    /\ entry' = NoEntry
    /\ idx' = 0
    /\ now' = 0
    /\ frame' = None
    /\ results' = <<>>
    /\ issued' = <<>>
    /\ inflight' = {}
    /\ UNCHANGED <<credentials, ncalls, providers, constructed>>
    /\ UNCHANGED deriveVars

----------------------------------------------------------------------------
(* The process: one thread calling the manager's entry points *)

\* the environments considered: no credentials at all, or all of them
CredentialSets == { {}, KnownIds }

\* the configurations given to synthesize_multiple: any backend id, voice id
\* present or absent, no 'options' key (config.get('options', {}))
Configs == { Config(pid, v, NoOptions) : pid \in BackendIds, v \in VoiceIds }

ConfigLists == UNION { [1 .. n -> Configs] : n \in 0 .. MaxConfigs }

\* no metrics view has run
NoReport ==
    [ view |-> "none", found |-> FALSE, p50 |-> None, p95 |-> None, p99 |-> None,
      total_evaluations |-> None, success_rate |-> None,
      avg_total |-> None, min_total |-> None, max_total |-> None,
      avg_jitter |-> None ]

ReportIdle ==
    /\ evaluations = <<>>
    /\ report = NoReport

\* no server thread is running
ConcurrentIdle ==
    /\ threads = <<>>
    /\ streams = <<>>

\* no result's audio has been built, no batch request has been received
NoAudio == [path |-> "none", audio_data |-> <<>>, audio_base64 |-> <<>>, audio_size |-> 0]
NoSession ==
    [ status |-> "none", pc |-> "idle", providers |-> <<>>, position |-> 0,
      evaluations |-> <<>>, results |-> <<>>, response |-> 0 ]
EndpointIdle ==
    /\ payload = NoAudio
    /\ session = NoSession

DeriveIdle ==
    /\ raw = TTSMetrics
    /\ rec = TTSMetrics
    /\ ev = TTSMetrics
    /\ once = None
    /\ runs = <<0, 0>>
    /\ ReportIdle
    /\ ConcurrentIdle
    /\ EndpointIdle

ManagerInit ==
    /\ ncalls = 0
    /\ providers = <<>>
    /\ constructed = [pid \in KnownIds |-> 0]
    /\ now = 0
    /\ pc = "idle"
    /\ entry = NoEntry
    /\ idx = 0
    /\ frame = None
    /\ results = <<>>
    /\ issued = <<>>
    /\ inflight = {}

Init ==
    /\ credentials \in CredentialSets
    /\ ManagerInit
    /\ DeriveIdle

Steps ==
    \/ DispatchUnknown
    \/ DispatchRaise
    \/ \E r1, r2, r3 \in RandomFifths : DispatchDemo(r1, r2, r3)
    \/ DispatchLive
    \/ \E d \in Ticks, msg \in ExceptionTexts : TransportError(d, msg)
    \/ \E d \in Ticks, status \in ErrorStatuses : ResponseError(d, status)
    \/ \E d1, d2 \in Ticks, size \in BodySizes : ResponseOkBatch(d1, d2, size)
    \/ \E d \in Ticks, msg \in ExceptionTexts : BodyError(d, msg)
    \/ \E d \in Ticks : ResponseOkStream(d)
    \/ \E d \in Ticks, size \in ChunkSizes : ReadChunk(d, size)
    \/ \E d \in Ticks : EmptyChunk(d)
    \/ \E d \in Ticks : StreamEnd(d)
    \/ \E d \in Ticks, msg \in ExceptionTexts : StreamError(d, msg)
    \/ Release

\* a process calling get_provider, get_all_providers and synthesize
Next ==
    \/ \E pid \in BackendIds : CallGetProvider(pid)
    \/ CallGetAllProviders
    \/ \E pid \in BackendIds, text \in Texts, voice_id \in VoiceIds,
          streaming \in BOOLEAN, options \in OptionMaps, t0 \in 0 .. MaxStart :
            CallSynthesize(pid, text, voice_id, streaming, options, t0)
    \/ Steps

Spec == Init /\ [][Next]_vars

\* the environments considered for synthesize_multiple: no credentials, or
\* credentials for one natively streaming and one delegating backend
ManyCredentialSets == { {}, { "elevenlabs", "google" } }

InitMany ==
    /\ credentials \in ManyCredentialSets
    /\ ManagerInit
    /\ DeriveIdle

\* a process whose first call is synthesize_multiple, entered at clock reading 0
NextMany ==
    \/ /\ ncalls = 0
       /\ \E text \in Texts, configs \in ConfigLists, streaming \in BOOLEAN :
               CallSynthesizeMultiple(text, configs, streaming, 0)
    \/ Steps

SpecMany == InitMany /\ [][NextMany]_vars

\* the outcomes of the catalog request a live adapter's get_voices sends
VoiceFetches == { "ok", "error" }

\* <Provider>.get_voices(): the static catalog in demo mode (openai: always),
\* the vendor's catalog when the request succeeds, [] otherwise
GetVoices(adapter, fetch) ==
    IF adapter.demo_mode \/ adapter.provider_id = "openai" THEN "demo_voices"
    ELSE IF fetch = "ok" THEN "vendor_voices"
    ELSE "no_voices"

\* get_provider_voices: the adapter is resolved and asked for its voices
CallGetVoices(pid, fetch) ==
    /\ pc = "idle"
    /\ ncalls < MaxCalls
    /\ ncalls' = ncalls + 1
    /\ LET g == GetProvider(pid)
       IN  /\ providers' = g.providers
           /\ constructed' = g.constructed
           /\ entry' = [NoEntry EXCEPT
                           !.op = "get_voices", !.provider_id = pid,
                           !.ret = <<g.ret>>,
                           !.voices = IF IsNone(g.ret) THEN "unknown_provider"
                                      ELSE GetVoices(Val(g.ret), fetch)]
    /\ pc' = "returned"
    /\ UNCHANGED <<credentials, now, idx, frame, results, issued, inflight>>
    /\ UNCHANGED deriveVars

\* the process environment changes between two calls: credentials appear or
\* disappear (os.getenv is read only by the adapters' constructors)
SetEnv(c) ==
    /\ pc = "idle"
    /\ c # credentials
    /\ credentials' = c
    /\ UNCHANGED <<ncalls, providers, constructed, now, pc, entry, idx, frame,
                   results, issued, inflight>>
    /\ UNCHANGED deriveVars

\* a process calling get_provider, get_voices and synthesize while its
\* environment changes
NextEnv ==
    \/ \E c \in CredentialSets : SetEnv(c)
    \/ \E pid \in BackendIds : CallGetProvider(pid)
    \/ \E pid \in BackendIds, fetch \in VoiceFetches : CallGetVoices(pid, fetch)
    \/ \E pid \in BackendIds, voice_id \in VoiceIds, streaming \in BOOLEAN :
          CallSynthesize(pid, Texts10, voice_id, streaming, NoOptions, 0)
    \/ Steps

SpecEnv == Init /\ [][NextEnv]_vars

----------------------------------------------------------------------------
(* The derivation step on its own: a raw record is drawn, then derived *)

\* non-decreasing timestamp sequences (the clock is monotonic)
TimingSeqs ==
    { t \in UNION { [1 .. n -> 0 .. MaxTime] : n \in 0 .. MaxTimings } :
        \A i \in 1 .. (Len(t) - 1) : t[i] <= t[i + 1] }

RawRecords ==
    { [TTSMetrics EXCEPT
          !.total_synthesis_time = tst,
          !.character_count = cc,
          !.audio_duration = dur,
          !.chunk_timings = t,
          !.is_streaming = t # <<>>,
          !.chunk_count = IF t # <<>> THEN Some(Len(t)) ELSE None] :
        tst \in { None, Some(0), Some(500), Some(1000) },
        cc \in { 0, 100 },
        dur \in { None, Some(RatInt(0)), Some(RatInt(2)) },
        t \in TimingSeqs }

DeriveInit ==
    /\ credentials = {}
    /\ ManagerInit
    /\ raw \in RawRecords
    /\ rec = raw
    /\ ev = raw
    /\ once = None
    /\ runs = <<0, 0>>
    /\ ReportIdle
    /\ ConcurrentIdle
    /\ EndpointIdle

\* metrics.calculate_derived_metrics() on the TTSMetrics record
DeriveRecord ==
    /\ runs[1] < MaxRuns
    /\ rec' = CalculateDerivedMetrics(rec)
    /\ once' = IF runs[1] = 0 THEN Some(rec') ELSE once
    /\ runs' = <<runs[1] + 1, runs[2]>>
    /\ UNCHANGED <<raw, ev>>
    /\ UNCHANGED reportVars
    /\ UNCHANGED concurrentVars
    /\ UNCHANGED endpointVars
    /\ UNCHANGED managerVars

\* evaluation.calculate_derived_metrics() on the TTSEvaluation row
DeriveEvaluation ==
    /\ runs[2] < MaxRuns
    /\ ev' = EvaluationCalculateDerivedMetrics(ev)
    /\ runs' = <<runs[1], runs[2] + 1>>
    /\ UNCHANGED <<raw, rec, once>>
    /\ UNCHANGED reportVars
    /\ UNCHANGED concurrentVars
    /\ UNCHANGED endpointVars
    /\ UNCHANGED managerVars

NextDerive == DeriveRecord \/ DeriveEvaluation

SpecDerive == DeriveInit /\ [][NextDerive]_vars

----------------------------------------------------------------------------
(* The metrics reports: percentiles of the synthesis times *)

\* evaluations.filter(success=True).values_list('total_synthesis_time'),
\* then [t for t in synthesis_times if t is not None]
HasTime(row) == row.success /\ ~IsNone(row.total_synthesis_time)
SynthesisTimes(rows) ==
    LET kept == SelectSeq(rows, HasTime)
    IN  [i \in 1 .. Len(kept) |-> Val(kept[i].total_synthesis_time)]

\* synthesis_times.sort(): a stable ascending sort; the element stored at
\* index j moves to the position that counts the smaller elements and the
\* equal ones stored no later
SortAsc(s) ==
    LET n == Len(s)
        pos == [j \in 1 .. n |->
                   Cardinality({ i \in 1 .. n :
                                   s[i] < s[j] \/ (s[i] = s[j] /\ i <= j) })]
    IN  [k \in 1 .. n |-> s[CHOOSE j \in 1 .. n : pos[j] = k]]

\* int(n * 0.5), int(n * 0.95), int(n * 0.99): the float product truncated,
\* which is floor(n * p / 100) for every n up to 200000
PercentileIndex(n, p) == (n * p) \div 100

\* mutant: p95 and p99 are computed for every non-empty sample
Percentiles_NoSuppression(times) ==
    LET sorted == SortAsc(times)
        n == Len(sorted)
    IN  IF n = 0 THEN [p50 |-> None, p95 |-> None, p99 |-> None]
        ELSE [ p50 |-> Some(sorted[PercentileIndex(n, 50) + 1]),
               p95 |-> Some(sorted[PercentileIndex(n, 95) + 1]),
               p99 |-> Some(sorted[PercentileIndex(n, 99) + 1]) ]

\* p50 = p95 = p99 = None; if synthesis_times: p50 = synthesis_times[int(n * 0.5)];
\* p95 = ... if n >= 20 else None; p99 = ... if n >= 100 else None
\* (Python indexes from 0, a TLA+ sequence from 1)
Percentiles(times) ==
    LET sorted == SortAsc(times)
        n == Len(sorted)
    IN  IF n = 0 THEN [p50 |-> None, p95 |-> None, p99 |-> None]
        ELSE [ p50 |-> Some(sorted[PercentileIndex(n, 50) + 1]),
               p95 |-> IF n >= 20 THEN Some(sorted[PercentileIndex(n, 95) + 1])
                       ELSE None,
               p99 |-> IF n >= 100 THEN Some(sorted[PercentileIndex(n, 99) + 1])
                       ELSE None ]

\* round(p, 2) if p else None, for a time in whole milliseconds
Reported(p) == IF ~IsNone(p) /\ Val(p) # 0 THEN p ELSE None

\* the percentile part of one provider's report; without a successful row
\* get_provider_metrics answers 'No successful evaluations found' and
\* get_comparison_metrics skips the provider
PercentileReport(view, rows) ==
    IF \A i \in 1 .. Len(rows) : ~rows[i].success
    THEN [NoReport EXCEPT !.view = view]
    ELSE LET p == Percentiles(SynthesisTimes(rows))
         IN  [NoReport EXCEPT !.view = view, !.found = TRUE,
                              !.p50 = Reported(p.p50), !.p95 = Reported(p.p95),
                              !.p99 = Reported(p.p99)]

\* the non-null values of one field over the successful rows: what
\* Avg('field'), Min('field') and Max('field') aggregate over
FieldValues(rows, field) ==
    LET kept == SelectSeq(rows, LAMBDA r : r.success /\ ~IsNone(r[field]))
    IN  [i \in 1 .. Len(kept) |-> Val(kept[i][field])]

\* round(x, 2) of a value that is not negative: the nearest hundredth, a tie
\* going to the even one
Round2(r) ==
    LET q == (r.num * 100) \div r.den
        m == (r.num * 100) % r.den
    IN  IF 2 * m < r.den THEN Rat(q, 100)
        ELSE IF 2 * m > r.den THEN Rat(q + 1, 100)
        ELSE IF q % 2 = 0 THEN Rat(q, 100) ELSE Rat(q + 1, 100)

\* evaluations.aggregate(...): Avg, Min and Max are None without a non-null value
Avg(values) == IF values = <<>> THEN None ELSE Some(Mean(values))
Min(values) == IF values = <<>> THEN None ELSE Some(RatInt(MinSeq(values)))
Max(values) == IF values = <<>> THEN None ELSE Some(RatInt(MaxSeq(values)))

\* round(agg['x'], 2) if agg['x'] else None
ReportedAggregate(a) ==
    IF ~IsNone(a) /\ ~RatIsZero(Val(a)) THEN Some(Round2(Val(a))) ELSE None

\* TTSEvaluation.objects.filter(provider__provider_id=...).count() and
\* agg['total'] = Count('id') over the successful rows
CountAll(rows) == Len(rows)
CountSuccessful(rows) == Cardinality({ i \in 1 .. Len(rows) : rows[i].success })

\* success_rate = (agg['total'] / total_all * 100) if total_all > 0 else 0,
\* reported as round(success_rate, 2)
SuccessRate(rows) ==
    IF CountAll(rows) > 0
    THEN Round2(Rat(CountSuccessful(rows) * 100, CountAll(rows)))
    ELSE RatInt(0)

\* the response of get_provider_metrics ("provider") or the entry that
\* get_comparison_metrics appends for the provider ("comparison").  Without a
\* successful row the provider view answers {'total_evaluations': 0,
\* 'message': ...} and the comparison view skips the provider; the comparison
\* entry carries no minimum and no maximum.
MetricsReport(view, rows) ==
    LET p == PercentileReport(view, rows)
    IN  IF ~p.found
        THEN [p EXCEPT !.total_evaluations =
                           IF view = "provider" THEN Some(0) ELSE None]
        ELSE [ view |-> view, found |-> TRUE,
               p50 |-> p.p50, p95 |-> p.p95, p99 |-> p.p99,
               total_evaluations |-> Some(CountAll(rows)),
               success_rate |-> Some(SuccessRate(rows)),
               avg_total |->
                   ReportedAggregate(Avg(FieldValues(rows, "total_synthesis_time"))),
               min_total |->
                   IF view = "provider"
                   THEN ReportedAggregate(Min(FieldValues(rows, "total_synthesis_time")))
                   ELSE None,
               max_total |->
                   IF view = "provider"
                   THEN ReportedAggregate(Max(FieldValues(rows, "total_synthesis_time")))
                   ELSE None,
               avg_jitter |->
                   ReportedAggregate(Avg(FieldValues(rows, "playback_jitter"))) ]

\* the stored rows considered: n rows whose times come in ascending or in
\* scattered order.  "clean": every call succeeded, none streamed (no jitter);
\* "mixed": every fourth row failed (no time) and every ninth succeeded
\* without a stored time; "failed": every call failed; "steady": streamed
\* calls whose chunk delays were all equal (jitter 0); "streamed": streamed
\* calls with jitters 0, 1, 2
RowOrders == { 1, 37 }
RowShapes == { "clean", "mixed", "failed", "steady", "streamed" }
Row(i, order, shape) ==
    [ success |-> shape # "failed" /\ (shape # "mixed" \/ i % 4 # 0),
      total_synthesis_time |->
          IF shape = "failed" \/ (shape = "mixed" /\ (i % 4 = 0 \/ i % 9 = 0))
          THEN None
          ELSE Some(((i * order) % 97) + 1),
      playback_jitter |->
          CASE shape = "steady" -> Some(0)
            [] shape = "streamed" -> Some(i % 3)
            [] OTHER -> None ]
StoredRows ==
    { [i \in 1 .. n |-> Row(i, order, shape)] :
        n \in 0 .. MaxRows, order \in RowOrders, shape \in RowShapes }

ReportInit ==
    /\ credentials = {}
    /\ ManagerInit
    /\ raw = TTSMetrics
    /\ rec = TTSMetrics
    /\ ev = TTSMetrics
    /\ once = None
    /\ runs = <<0, 0>>
    /\ evaluations \in StoredRows
    /\ report = NoReport
    /\ ConcurrentIdle
    /\ EndpointIdle

\* GET provider metrics
GetProviderMetrics ==
    /\ report.view = "none"
    /\ report' = MetricsReport("provider", evaluations)
    /\ UNCHANGED <<evaluations, raw, rec, ev, once, runs>>
    /\ UNCHANGED concurrentVars
    /\ UNCHANGED endpointVars
    /\ UNCHANGED managerVars

\* GET comparison metrics, for the one provider the rows belong to
GetComparisonMetrics ==
    /\ report.view = "none"
    /\ report' = MetricsReport("comparison", evaluations)
    /\ UNCHANGED <<evaluations, raw, rec, ev, once, runs>>
    /\ UNCHANGED concurrentVars
    /\ UNCHANGED endpointVars
    /\ UNCHANGED managerVars

NextReport == GetProviderMetrics \/ GetComparisonMetrics

SpecReport == ReportInit /\ [][NextReport]_vars

----------------------------------------------------------------------------
(* TTSServiceManager.get_provider called from the threads of one process *)

\* each statement of get_provider is one step of the calling thread: the
\* membership test, the construction, the store into the class-level dict and
\* the final lookup are separate bytecodes between which threads switch
Threads == 1 .. MaxThreads
ResolvedIds == { "elevenlabs", "amazon", "not_a_real_backend" }

IdleThread ==
    [ pc |-> "idle", provider_id |-> "", built |-> None, calls |-> 0,
      received |-> <<>> ]

ThreadsInit ==
    /\ credentials \in CredentialSets
    /\ ManagerInit
    /\ raw = TTSMetrics
    /\ rec = TTSMetrics
    /\ ev = TTSMetrics
    /\ once = None
    /\ runs = <<0, 0>>
    /\ ReportIdle
    /\ threads = [t \in Threads |-> IdleThread]
    /\ streams = <<>>
    /\ EndpointIdle

ThreadStep(t, th) ==
    /\ threads' = [threads EXCEPT ![t] = th]
    /\ UNCHANGED <<credentials, ncalls, now, pc, entry, idx, frame, results, issued,
                   inflight, raw, rec, ev, once, runs, evaluations, report, streams,
                   payload, session>>

\* thread t enters get_provider(pid)
ThreadCall(t, pid) ==
    /\ threads[t].pc = "idle"
    /\ threads[t].calls < MaxResolves
    /\ ThreadStep(t, [threads[t] EXCEPT !.pc = "test", !.provider_id = pid,
                                        !.built = None, !.calls = @ + 1])
    /\ UNCHANGED <<providers, constructed>>

\* if provider_id not in cls._providers: provider_class = {...}.get(provider_id);
\* if provider_class:
ThreadTest(t) ==
    /\ threads[t].pc = "test"
    /\ ThreadStep(t, [threads[t] EXCEPT !.pc =
            IF threads[t].provider_id \notin DOMAIN providers
               /\ threads[t].provider_id \in KnownIds
            THEN "construct" ELSE "get"])
    /\ UNCHANGED <<providers, constructed>>

\* provider_class()
ThreadConstruct(t) ==
    /\ threads[t].pc = "construct"
    /\ ThreadStep(t, [threads[t] EXCEPT
            !.pc = "store",
            !.built = Some(NewProvider(threads[t].provider_id, constructed))])
    /\ constructed' = [constructed EXCEPT ![threads[t].provider_id] = @ + 1]
    /\ UNCHANGED providers

\* cls._providers[provider_id] = <the new instance>
ThreadStore(t) ==
    /\ threads[t].pc = "store"
    /\ providers' = (threads[t].provider_id :> Val(threads[t].built)) @@ providers
    /\ ThreadStep(t, [threads[t] EXCEPT !.pc = "get"])
    /\ UNCHANGED constructed

\* return cls._providers.get(provider_id)
ThreadGet(t) ==
    /\ threads[t].pc = "get"
    /\ ThreadStep(t, [threads[t] EXCEPT
            !.pc = "idle",
            !.received = Append(@,
                IF threads[t].provider_id \in DOMAIN providers
                THEN Some(providers[threads[t].provider_id]) ELSE None)])
    /\ UNCHANGED <<providers, constructed>>

NextThreads ==
    \E t \in Threads :
        \/ \E pid \in ResolvedIds : ThreadCall(t, pid)
        \/ ThreadTest(t)
        \/ ThreadConstruct(t)
        \/ ThreadStore(t)
        \/ ThreadGet(t)

SpecThreads == ThreadsInit /\ [][NextThreads]_vars

----------------------------------------------------------------------------
(* synthesize_streaming called concurrently on one adapter instance *)

\* the calls, each in its own thread of the process, share the adapter and
\* the clock; the vendor answers each call on its own connection
StreamCalls == 1 .. MaxStreams

\* where call c keeps metrics, chunks, chunk_sizes, first_chunk_received and
\* start_time: in names local to the call's activation of synthesize_streaming
\* mutant: the accumulators are fields of the adapter the calls share
LocalsOf_AdapterFields(c) == 1

LocalsOf(c) == c

IdleCall == [pc |-> "idle", start |-> 0, delivered |-> <<>>, result |-> None]

\* the activation record of call c, once it has entered
L(c) == Val(streams.locals[LocalsOf(c)])

\* the adapters whose concurrent use is followed
StreamedIds == { "elevenlabs" }

StreamsInit ==
    /\ \E pid \in StreamedIds :
          /\ credentials = { pid }
          /\ constructed = [q \in KnownIds |-> IF q = pid THEN 1 ELSE 0]
          /\ providers = (pid :> NewProvider(pid, [q \in KnownIds |-> 0]))
    /\ ncalls = 0
    /\ now = 0
    /\ pc = "idle"
    /\ entry = NoEntry
    /\ idx = 0
    /\ frame = None
    /\ results = <<>>
    /\ issued = <<>>
    /\ inflight = {}
    /\ raw = TTSMetrics
    /\ rec = TTSMetrics
    /\ ev = TTSMetrics
    /\ once = None
    /\ runs = <<0, 0>>
    /\ ReportIdle
    /\ threads = <<>>
    /\ streams = [ call |-> [c \in StreamCalls |-> IdleCall],
                   locals |-> [k \in StreamCalls |-> None] ]
    /\ EndpointIdle

\* what a step of a streaming call leaves alone: all but the clock and the calls
StreamFrame ==
    UNCHANGED <<credentials, ncalls, providers, constructed, pc, entry, idx, frame,
                results, issued, inflight, raw, rec, ev, once, runs, evaluations,
                report, threads, payload, session>>

\* the adapter both calls run on
StreamAdapter == CHOOSE pid \in DOMAIN providers : TRUE

\* call c enters synthesize_streaming(text, voice_id): metrics = TTSMetrics(),
\* start_time, chunks = [], chunk_sizes = [], first_chunk_received = False,
\* then the request is sent
StreamEnter(c, text) ==
    /\ streams.call[c].pc = "idle"
    /\ streams' =
         [ call |-> [streams.call EXCEPT ![c] = [@ EXCEPT !.pc = "await", !.start = now]],
           locals |-> [streams.locals EXCEPT ![LocalsOf(c)] =
                          Some([ pid |-> StreamAdapter,
                                 voice_id |-> Some("v1"),
                                 model |-> ModelOf(StreamAdapter, NoOptions),
                                 stream |-> TRUE,
                                 metrics |-> NewMetrics(text, TRUE),
                                 start_time |-> now,
                                 chunks |-> <<>>,
                                 chunk_sizes |-> <<>>,
                                 first_chunk_received |-> FALSE ])] ]
    /\ now' = now
    /\ StreamFrame

\* the status line of call c arrives with a success status
StreamResponseOk(c, d) ==
    /\ streams.call[c].pc = "await"
    /\ now' = now + d
    /\ streams' =
         [ call |-> [streams.call EXCEPT ![c] = [@ EXCEPT !.pc = "stream"]],
           locals |-> [streams.locals EXCEPT ![LocalsOf(c)] =
                          Some([L(c) EXCEPT !.metrics.time_to_first_byte =
                                               Some(now' - L(c).start_time)])] ]
    /\ StreamFrame

\* the vendor answers call c with an error status: the failure result
StreamResponseError(c, d, status) ==
    /\ streams.call[c].pc = "await"
    /\ now' = now + d
    /\ streams' =
         [streams EXCEPT !.call[c] = [@ EXCEPT
             !.pc = "done",
             !.result = Some(FailureResult(L(c).pid, L(c).voice_id,
                             [L(c).metrics EXCEPT
                                 !.time_to_first_byte = Some(now' - L(c).start_time)],
                             StatusMessage(L(c).pid, TRUE, status), L(c).model))]]
    /\ StreamFrame

\* call c reads one non-empty increment from its connection
StreamChunk(c, d, size) ==
    /\ streams.call[c].pc = "stream"
    /\ Len(streams.call[c].delivered) < MaxChunks
    /\ now' = now + d
    /\ streams' =
         [ call |-> [streams.call EXCEPT ![c] = [@ EXCEPT
                        !.delivered = Append(@, [at |-> now', size |-> size])]],
           locals |-> [streams.locals EXCEPT ![LocalsOf(c)] =
                          Some(OnChunk(L(c), now', size))] ]
    /\ StreamFrame

\* the body of call c is exhausted: the raw fields, the derivation, the result
StreamFinish(c, d) ==
    /\ streams.call[c].pc = "stream"
    /\ now' = now + d
    /\ \E duration \in GetAudioDuration(Audio(SumSeq(L(c).chunks)), "mp3") :
         streams' =
           [streams EXCEPT !.call[c] = [@ EXCEPT
               !.pc = "done",
               !.result = Some(SuccessResult(L(c).pid, L(c).voice_id,
                               CalculateDerivedMetrics(
                                   StreamRawMetrics(L(c), now' - L(c).start_time,
                                                    duration)),
                               Audio(SumSeq(L(c).chunks)), L(c).model,
                               L(c).pid # "amazon"))]]
    /\ StreamFrame

\* a read of call c raises in mid-body: the except handler's result
StreamRaise(c, d, msg) ==
    /\ streams.call[c].pc = "stream"
    /\ now' = now + d
    /\ streams' =
         [streams EXCEPT !.call[c] = [@ EXCEPT
             !.pc = "done",
             !.result = Some(FailureResult(L(c).pid, L(c).voice_id, L(c).metrics,
                             ExceptionMessage(msg),
                             ExceptModel(L(c).pid, L(c).model)))]]
    /\ StreamFrame

NextStreams ==
    \E c \in StreamCalls :
        \/ StreamEnter(c, Texts10)
        \/ \E d \in Ticks : StreamResponseOk(c, d)
        \/ \E d \in Ticks, status \in ErrorStatuses : StreamResponseError(c, d, status)
        \/ \E d \in Ticks, size \in ChunkSizes : StreamChunk(c, d, size)
        \/ \E d \in Ticks : StreamFinish(c, d)
        \/ \E d \in Ticks : StreamRaise(c, d, "Connection timed out")

SpecStreams == StreamsInit /\ [][NextStreams]_vars

----------------------------------------------------------------------------
(* The audio fields of a result: bytes, base64 text, size *)

\* bytes are numbers 0 .. 255; a body is a sequence of bytes
ByteValues == { 0, 77, 255 }
Bodies == UNION { [1 .. n -> ByteValues] : n \in 0 .. MaxBody }
ChunkBodies == { b \in Bodies : Len(b) \in { 1, 2 } }

\* the base64 alphabet of RFC 4648, as base64.b64encode uses it
B64Alphabet ==
    << "A", "B", "C", "D", "E", "F", "G", "H", "I", "J", "K", "L", "M", "N", "O", "P",
       "Q", "R", "S", "T", "U", "V", "W", "X", "Y", "Z", "a", "b", "c", "d", "e", "f",
       "g", "h", "i", "j", "k", "l", "m", "n", "o", "p", "q", "r", "s", "t", "u", "v",
       "w", "x", "y", "z", "0", "1", "2", "3", "4", "5", "6", "7", "8", "9", "+", "/" >>

Pow(b, e) == IF e = 0 THEN 1 ELSE IF e = 1 THEN b ELSE IF e = 2 THEN b * b ELSE b * b * b

\* mutant: the encoder leaves out the '=' padding
B64EncodeBytes_Unpadded(bytes) ==
    LET n == Len(bytes)
        at(j) == IF j <= n THEN bytes[j] ELSE 0
        out == (n * 4 + 2) \div 3
    IN  [k \in 1 .. out |->
            LET q == (k - 1) \div 4
                pos == (k - 1) % 4
                v == at(3 * q + 1) * 65536 + at(3 * q + 2) * 256 + at(3 * q + 3)
            IN  B64Alphabet[((v \div Pow(64, 3 - pos)) % 64) + 1]]

\* base64.b64encode(bytes).decode('utf-8'): each group of three bytes gives
\* four characters, a last group of one or two bytes is padded with '='
B64EncodeBytes(bytes) ==
    LET n == Len(bytes)
        at(j) == IF j <= n THEN bytes[j] ELSE 0
        out == 4 * ((n + 2) \div 3)
    IN  [k \in 1 .. out |->
            LET q == (k - 1) \div 4
                pos == (k - 1) % 4
                v == at(3 * q + 1) * 65536 + at(3 * q + 2) * 256 + at(3 * q + 3)
            IN  IF pos >= 2 /\ 3 * q + pos > n THEN "="
                ELSE B64Alphabet[((v \div Pow(64, 3 - pos)) % 64) + 1]]

\* base64.b64decode(chars) for text over the alphabet and '=': binascii.Error
\* (None here) when the length is not a multiple of four, else three bytes
\* per group less one per '=' at the end
B64DecodeChars(chars) ==
    LET n == Len(chars)
        value(c) == IF c = "=" THEN 0
                    ELSE (CHOOSE i \in 1 .. 64 : B64Alphabet[i] = c) - 1
        pads == IF n >= 2 /\ chars[n] = "=" /\ chars[n - 1] = "=" THEN 2
                ELSE IF n >= 1 /\ chars[n] = "=" THEN 1 ELSE 0
        out == 3 * (n \div 4) - pads
    IN  IF n % 4 # 0 THEN None
        ELSE Some([j \in 1 .. out |->
                LET q == (j - 1) \div 3
                    pos == (j - 1) % 3
                    v == value(chars[4 * q + 1]) * 262144 + value(chars[4 * q + 2]) * 4096
                         + value(chars[4 * q + 3]) * 64 + value(chars[4 * q + 4])
                IN  (v \div Pow(256, 2 - pos)) % 256])

\* BaseTTSProvider._generate_demo_audio: the 44 header bytes, then
\* int(22050 * len(text) * 0.05) * 2 zero bytes
WavHeader ==
    << 82, 73, 70, 70,  36, 0, 0, 0,  87, 65, 86, 69,  102, 109, 116, 32,
       16, 0, 0, 0,  1, 0,  1, 0,  34, 86, 0, 0,  68, 172, 0, 0,
       2, 0,  16, 0,  100, 97, 116, 97,  0, 0, 0, 0 >>
GenerateDemoAudioBytes(text) ==
    WavHeader \o [i \in 1 .. (((22050 * Len(text) * 5) \div 100) * 2) |-> 0]

\* b''.join(chunks)
RECURSIVE Join(_)
Join(chunks) == IF chunks = <<>> THEN <<>> ELSE Head(chunks) \o Join(Tail(chunks))

AudioInit ==
    /\ credentials = {}
    /\ ManagerInit
    /\ DeriveIdle
    /\ payload = NoAudio
    /\ session = NoSession

AudioStep(p) ==
    /\ payload.path = "none"
    /\ payload' = p
    /\ UNCHANGED <<raw, rec, ev, once, runs, evaluations, report, threads, streams,
                   session>>
    /\ UNCHANGED managerVars

\* a live synthesize of elevenlabs, azure, amazon or openai on a success
\* answer: audio_data = response.content (amazon: AudioStream.read())
BuildBatch(body) ==
    AudioStep([ path |-> "batch", audio_data |-> body,
                audio_base64 |-> B64EncodeBytes(body), audio_size |-> Len(body) ])

\* a live synthesize of google: the vendor's JSON carries the audio as
\* base64 text, which is decoded for audio_data and passed on as audio_base64
BuildGoogle(body) ==
    LET audio_content == B64EncodeBytes(body)
        audio_data == Val(B64DecodeChars(audio_content))
    IN  AudioStep([ path |-> "google", audio_data |-> audio_data,
                    audio_base64 |-> audio_content, audio_size |-> Len(audio_data) ])

\* a live synthesize_streaming: audio_data = b''.join(chunks)
BuildStream(chunks) ==
    LET audio_data == Join(chunks)
    IN  AudioStep([ path |-> "stream", audio_data |-> audio_data,
                    audio_base64 |-> B64EncodeBytes(audio_data),
                    audio_size |-> Len(audio_data) ])

\* _demo_synthesis: metrics.audio_size = int(len(text) * k), k by adapter;
\* audio_data = self._generate_demo_audio(text)
BuildDemo(pid, text) ==
    LET audio_data == GenerateDemoAudioBytes(text)
    IN  AudioStep([ path |-> "demo", audio_data |-> audio_data,
                    audio_base64 |-> B64EncodeBytes(audio_data),
                    audio_size |-> Len(text) * DemoProfile(pid).size ])

NextAudio ==
    \/ \E body \in Bodies : BuildBatch(body)
    \/ \E body \in Bodies : BuildGoogle(body)
    \/ \E chunks \in UNION { [1 .. n -> ChunkBodies] : n \in 0 .. MaxChunks } :
          BuildStream(chunks)
    \/ \E pid \in KnownIds, text \in Texts : BuildDemo(pid, text)

SpecAudio == AudioInit /\ [][NextAudio]_vars

----------------------------------------------------------------------------
(* The batch synthesis endpoint and its evaluation session.  session is the
   request being served together with the EvaluationSession row it created:
   status is the row's status column ("none" while no row exists), pc the
   request's position in synthesize_batch, providers the validated list of
   provider configurations, position the configuration the loop is at,
   evaluations the TTSEvaluation rows created for the session in creation
   order, results the list built for the response and response the HTTP
   status answered (0 while none).  The database commits every write as it is
   made, so a row written before an exception stays written. *)

\* the named parameters of TTSServiceManager.synthesize
ManagerParameters == { "provider_id", "text", "voice_id", "streaming" }

\* a provider configuration as the serializer lets it through: the keys
\* provider_id and voice_id are present, their values are not examined (a
\* JSON null is a voice_id), options is any mapping (kept by its keys)
BatchProviderIds == { "elevenlabs", "not_a_real_backend" }
BatchVoiceIds == { Some("Rachel"), None }
BatchOptions == { {}, { "model_id" }, { "streaming" } }
ProviderConfigs ==
    [ provider_id : BatchProviderIds, voice_id : BatchVoiceIds, options : BatchOptions ]
BatchPayloads == UNION { [1 .. n -> ProviderConfigs] : n \in 0 .. MaxBatch }

SessionInit ==
    /\ credentials = {}
    /\ ManagerInit
    /\ DeriveIdle

SessionFrame ==
    /\ UNCHANGED <<raw, rec, ev, once, runs, evaluations, report, threads, streams,
                   payload>>
    /\ UNCHANGED managerVars

\* the serializer refuses a providers list shorter than one: 400, no session
BatchReject(provider_configs) ==
    /\ session.pc = "idle"
    /\ Len(provider_configs) < 1
    /\ session' = [session EXCEPT !.pc = "responded", !.response = 400]
    /\ SessionFrame

\* a valid request: the session row is created with status 'running'
BatchReceive(provider_configs) ==
    /\ session.pc = "idle"
    /\ Len(provider_configs) >= 1
    /\ session' = [session EXCEPT !.status = "running", !.pc = "loop",
                                  !.providers = provider_configs, !.position = 1]
    /\ SessionFrame

\* what one pass of the loop raises for a configuration, "" when nothing:
\* **options repeating a named parameter of synthesize is a TypeError at the
\* call; a null voice_id is refused by the voice_id_str column (for google
\* already by synthesize)
BatchRaises(provider_config) ==
    IF provider_config.options \cap ManagerParameters # {} THEN "TypeError"
    ELSE IF IsNone(provider_config.voice_id) THEN "IntegrityError"
    ELSE ""

\* one pass of the loop that runs to its end: synthesize answers a result
\* (a failure result for an unregistered backend), one TTSEvaluation row is
\* created for the session and one entry is appended to results
BatchProcess(success) ==
    LET provider_config == session.providers[session.position]
        evaluation == [ provider |-> provider_config.provider_id,
                        voice_id_str |-> Val(provider_config.voice_id),
                        success |-> success,
                        request_params |-> provider_config.options ]
    IN  /\ session.pc = "loop"
        /\ session.position <= Len(session.providers)
        /\ BatchRaises(provider_config) = ""
        /\ provider_config.provider_id \notin KnownIds => ~success
        /\ session' = [session EXCEPT
                         !.evaluations = Append(@, evaluation),
                         !.results = Append(@, [ success |-> success,
                                                 evaluation_id |-> Len(@) + 1 ]),
                         !.position = @ + 1]
        /\ SessionFrame

\* one pass of the loop that raises: nothing in synthesize_batch catches the
\* exception, the request ends with a server error and the lines after the
\* loop are not run
BatchRaise ==
    LET provider_config == session.providers[session.position]
    IN  /\ session.pc = "loop"
        /\ session.position <= Len(session.providers)
        /\ BatchRaises(provider_config) # ""
        /\ session' = [session EXCEPT !.pc = "raised", !.response = 500]
        /\ SessionFrame

\* after the loop: session.status = 'completed', session.save(), the response
BatchComplete ==
    /\ session.pc = "loop"
    /\ session.position > Len(session.providers)
    /\ session' = [session EXCEPT !.status = "completed", !.pc = "responded",
                                  !.response = 200]
    /\ SessionFrame

NextSession ==
    \/ \E provider_configs \in BatchPayloads : BatchReject(provider_configs)
    \/ \E provider_configs \in BatchPayloads : BatchReceive(provider_configs)
    \/ \E success \in BOOLEAN : BatchProcess(success)
    \/ BatchRaise
    \/ BatchComplete

\* the server keeps running a request it has accepted
SpecSession == SessionInit /\ [][NextSession]_vars /\ WF_vars(NextSession)

----------------------------------------------------------------------------
(* Properties *)

Range(q) == { q[i] : i \in 1 .. Len(q) }

NonDecreasing(t) == \A i \in 1 .. (Len(t) - 1) : t[i] <= t[i + 1]

\* the adapter that served configuration i of the running entry point
AdapterOf(i) == providers[entry.configs[i].provider_id]

\* C1: synthesize and synthesize_multiple never raise: no entry point ends
\* with an exception escaping to its caller, whatever backend id, text, voice
\* id (present or absent), streaming flag and environment it is called with.
C1_NeverRaises == pc # "raised"

\* C2: dispatching to a backend id outside the registry returns one result
\* with success = false whose error_message contains the id, issues no vendor
\* request, starts no adapter call, and stores nothing in the adapter cache.
C2_UnknownBackend ==
    /\ [](/\ DOMAIN providers \subseteq KnownIds
          /\ (/\ pc = "returned"
              /\ entry.op = "synthesize"
              /\ entry.provider_id \notin KnownIds)
             => /\ Len(results) = 1
                /\ ~results[1].success
                /\ entry.provider_id \in Range(results[1].error_message)
                /\ issued = <<>>
                /\ inflight = {}
                /\ frame = None)
    /\ [][(pc = "dispatch" /\ Cfg.provider_id \notin KnownIds)
            => (providers' = providers /\ constructed' = constructed)]_vars

C2_Witness ==
    /\ pc = "returned"
    /\ entry.op = "synthesize"
    /\ entry.provider_id = "not_a_real_backend"
    /\ DOMAIN providers # {}
    /\ Len(results) = 1

\* C3: when synthesize_multiple ends on a list of n configurations it has
\* returned exactly n results, result i carrying the backend id of
\* configuration i.
C3_OneResultPerConfig ==
    (entry.op = "synthesize_multiple" /\ pc \in { "returned", "raised" })
    => /\ pc = "returned"
       /\ Len(results) = Len(entry.configs)
       /\ \A i \in 1 .. Len(results) :
            results[i].provider_id = entry.configs[i].provider_id

\* C4: within one synthesize_multiple call at most one vendor request is in
\* flight; it belongs to the configuration the loop is at, all earlier
\* configurations have their result built, a streamed body stays in flight
\* until it is exhausted, and requests are issued in configuration order.
C4_OneCallAtATime ==
    /\ Cardinality(inflight) <= 1
    /\ \A k \in inflight : k = Len(issued) /\ issued[k].config = idx
    /\ inflight # {} => (Len(results) = idx - 1 /\ pc \in { "await", "stream" })
    /\ pc \in { "await", "stream" } => inflight = { Len(issued) }
    /\ pc = "dispatch" => (inflight = {} /\ Len(results) = idx - 1)
    /\ \A j, k \in 1 .. Len(issued) : j < k => issued[j].config < issued[k].config

C4_Witness ==
    /\ entry.op = "synthesize_multiple"
    /\ pc = "stream"
    /\ idx = 2
    /\ Len(issued) = 2
    /\ issued[1].stream
    /\ Len(F.chunks) = 1

\* C5: the adapter cache holds at most one instance per known backend id, an
\* adapter class is constructed only on the first resolution of its id, every
\* resolution returns the cached instance, and no entry is replaced or evicted.
C5_OneInstancePerBackend ==
    /\ [](/\ \A pid \in DOMAIN providers :
               /\ pid \in KnownIds
               /\ providers[pid].provider_id = pid
               /\ providers[pid].serial = 1
               /\ constructed[pid] = 1
          /\ \A pid \in KnownIds \ DOMAIN providers : constructed[pid] = 0
          /\ (pc = "returned" /\ entry.op = "get_provider")
             => entry.ret = << IF entry.provider_id \in KnownIds
                               THEN Some(providers[entry.provider_id]) ELSE None >>
          /\ (pc = "returned" /\ entry.op = "get_all_providers")
             => entry.ret = [i \in 1 .. 5 |-> Some(providers[AllProviderIds[i]])])
    /\ [][\A pid \in DOMAIN providers :
             pid \in DOMAIN providers' /\ providers'[pid] = providers[pid]]_vars

C5_Witness ==
    /\ ncalls = 2
    /\ pc = "returned"
    /\ entry.op = "get_provider"
    /\ entry.provider_id = "amazon"
    /\ DOMAIN providers = KnownIds

\* a successful result of a non-streaming synthesize call is in the return value
NonStreamingSuccess ==
    /\ pc = "returned"
    /\ entry.op = "synthesize"
    /\ ~entry.streaming
    /\ Len(results) = 1
    /\ results[1].success

JitterDelayCount(m) ==
    IF Len(m.chunk_timings) > 1 THEN Len(Delays(m.chunk_timings)) ELSE 0

\* C7 as claimed: every returned record with is_streaming = true (success,
\* failure in mid-body, demo) has chunk_count = len(chunk_timings), a
\* non-decreasing chunk_timings, and chunk_count - 1 inter-chunk delays.
C7_ChunkCount_AsClaimed ==
    \A i \in 1 .. Len(results) :
        results[i].metrics.is_streaming
        => LET m == results[i].metrics
           IN  /\ m.chunk_count = Some(Len(m.chunk_timings))
               /\ NonDecreasing(m.chunk_timings)
               /\ JitterDelayCount(m) = Val(m.chunk_count) - 1

\* C7 amended: every successful live record with is_streaming = true has
\* chunk_count = len(chunk_timings), a non-decreasing chunk_timings, and
\* chunk_count - 1 inter-chunk delays when chunk_count >= 1 (none when it is
\* 0); a streaming record of a failed call or of demo mode has a null
\* chunk_count, and its chunk_timings (the increments read before the
\* failure; empty in demo mode) is non-decreasing.
C7_ChunkCount_Successful ==
    \A i \in 1 .. Len(results) :
        results[i].metrics.is_streaming
        => LET m == results[i].metrics
           IN  /\ NonDecreasing(m.chunk_timings)
               /\ IF results[i].success /\ ~AdapterOf(i).demo_mode
                  THEN /\ m.chunk_count = Some(Len(m.chunk_timings))
                       /\ JitterDelayCount(m) =
                            IF Val(m.chunk_count) >= 1 THEN Val(m.chunk_count) - 1
                            ELSE 0
                  ELSE /\ IsNone(m.chunk_count)
                       /\ AdapterOf(i).demo_mode => m.chunk_timings = <<>>

C7_Witness ==
    /\ pc = "returned"
    /\ Len(results) = 1
    /\ results[1].success
    /\ results[1].metrics.is_streaming
    /\ results[1].metrics.chunk_count = Some(2)
    /\ results[1].metrics.chunk_timings[2] > results[1].metrics.chunk_timings[1]

\* C8: for every chunk_timings with at least 2 entries, the playback_jitter
\* TTSMetrics derives is the population standard deviation of the consecutive
\* differences, and equals the jitter TTSEvaluation derives from the same
\* chunk_timings.
C8_PopulationJitter ==
    (runs[1] >= 1 /\ runs[2] >= 1 /\ Len(raw.chunk_timings) >= 2)
    => /\ rec.playback_jitter = Some(PopulationStdev(Delays(raw.chunk_timings)))
       /\ rec.playback_jitter = ev.playback_jitter

\* C9: after derivation, a chunk_timings of exactly 2 entries gives
\* playback_jitter = 0 and min = max = avg chunk delay = the one delta; a
\* chunk_timings of 0 or 1 entries leaves the four jitter fields null.
C9_SingleDelta ==
    runs[1] >= 1
    => LET t == raw.chunk_timings
       IN  /\ Len(t) = 2
              => /\ rec.playback_jitter = Some(Sqrt(RatInt(0)))
                 /\ rec.min_chunk_delay = Some(t[2] - t[1])
                 /\ rec.max_chunk_delay = Some(t[2] - t[1])
                 /\ rec.avg_chunk_delay = Some(RatInt(t[2] - t[1]))
           /\ Len(t) <= 1 => \A f \in JitterFields : IsNone(rec[f])

C9_Witness ==
    /\ runs[1] >= 1
    /\ Len(raw.chunk_timings) = 2
    /\ raw.chunk_timings[2] > raw.chunk_timings[1]
    /\ rec.min_chunk_delay = Some(raw.chunk_timings[2] - raw.chunk_timings[1])

\* C10: running the derivation again leaves every derived field as the first
\* run left it, and no run changes a raw field.
C10_Idempotent ==
    runs[1] >= 1
    => /\ \A f \in DerivedFields : rec[f] = Val(once)[f]
       /\ \A f \in RawFields : rec[f] = raw[f]

C10_Witness ==
    /\ runs[1] = 2
    /\ Len(raw.chunk_timings) = 3
    /\ ~IsNone(rec.playback_jitter)
    /\ ~IsNone(rec.chars_per_second)
    /\ ~IsNone(rec.realtime_factor)

\* C11: after derivation realtime_factor is audio_duration /
\* (total_synthesis_time / 1000) whenever total_synthesis_time > 0 and
\* audio_duration is not null (a duration of 0 seconds included), and is null
\* only when one of the two is absent.
C11_RealtimeFactor ==
    runs[1] >= 1
    => LET tst == raw.total_synthesis_time
           dur == raw.audio_duration
       IN  IF ~IsNone(tst) /\ Val(tst) > 0 /\ ~IsNone(dur)
           THEN rec.realtime_factor = Some(RatDiv(Val(dur), Rat(Val(tst), 1000)))
           ELSE IsNone(rec.realtime_factor)

\* C12: after derivation chars_per_second is character_count /
\* total_synthesis_time * 1000 exactly when total_synthesis_time > 0 and
\* character_count > 0, and null otherwise; 100 characters in 500 ms give 200.
C12_CharsPerSecond ==
    runs[1] >= 1
    => LET tst == raw.total_synthesis_time
           cc  == raw.character_count
       IN  /\ IF ~IsNone(tst) /\ Val(tst) > 0 /\ cc > 0
              THEN rec.chars_per_second =
                       Some(RatMul(Rat(cc, Val(tst)), RatInt(1000)))
              ELSE IsNone(rec.chars_per_second)
           /\ (cc = 100 /\ tst = Some(500))
              => rec.chars_per_second = Some(RatInt(200))

C12_Witness ==
    /\ runs[1] >= 1
    /\ raw.character_count = 100
    /\ raw.total_synthesis_time = Some(500)
    /\ rec.chars_per_second = Some(RatInt(200))

\* a failure result reporting a vendor answer that is not a success
StatusFailure(r) ==
    /\ ~r.success
    /\ r.error_message # <<>>
    /\ Head(r.error_message) \in
         { "API Error ", "Streaming API Error ", "No audio stream in response" }

\* C13: a live call that fails on a non-success answer returns a record with
\* the time_to_first_byte measured before the failure, the text's
\* character_count and word_count, and a null total_synthesis_time; a call
\* whose transport raises before any response returns a record with the text
\* counts and null time_to_first_byte, time_to_first_audio and
\* total_synthesis_time.
C13_PartialMetrics ==
    /\ [](\A i \in 1 .. Len(results) :
            StatusFailure(results[i])
            => LET m == results[i].metrics
               IN  /\ ~IsNone(m.time_to_first_byte)
                   /\ Val(m.time_to_first_byte) >= 0
                   /\ IsNone(m.total_synthesis_time)
                   /\ m.character_count = GetTextMetrics(entry.text).char_count
                   /\ m.word_count = GetTextMetrics(entry.text).word_count)
    /\ [][(\E d \in Ticks, msg \in ExceptionTexts : TransportError(d, msg))
            => LET r == results'[Len(results')]
               IN  /\ ~r.success
                   /\ IsNone(r.metrics.time_to_first_byte)
                   /\ IsNone(r.metrics.time_to_first_audio)
                   /\ IsNone(r.metrics.total_synthesis_time)
                   /\ r.metrics.character_count = GetTextMetrics(entry.text).char_count
                   /\ r.metrics.word_count = GetTextMetrics(entry.text).word_count]_vars

C13_Witness ==
    /\ pc = "returned"
    /\ Len(results) = 1
    /\ StatusFailure(results[1])
    /\ results[1].provider_id = "openai"
    /\ results[1].metrics.is_streaming
    /\ results[1].metrics.time_to_first_byte = Some(1)
    /\ results[1].metrics.character_count = 10
    /\ results[1].metrics.word_count = 2

\* a synthesize call on a known backend with a voice id, made with no
\* credentials in the environment, has ended
DemoDispatchEnded ==
    /\ entry.op = "synthesize"
    /\ credentials = {}
    /\ entry.provider_id \in KnownIds
    /\ ~IsNone(entry.configs[1].voice_id)
    /\ pc \in { "returned", "raised" }

\* C14: with no credentials configured, synthesize on each of the five
\* backends, streaming or not, issues no vendor request and returns
\* success = true with non-null audio bytes and a record whose text counts,
\* audio_format, time_to_first_byte, time_to_first_audio and
\* total_synthesis_time are set, with
\* time_to_first_byte < time_to_first_audio <= total_synthesis_time.
C14_DemoDispatch ==
    /\ credentials = {} => (issued = <<>> /\ inflight = {})
    /\ DemoDispatchEnded
       => /\ pc = "returned"
          /\ Len(results) = 1
          /\ results[1].success
          /\ ~IsNone(results[1].audio_data)
          /\ LET m == results[1].metrics
             IN  /\ m.character_count = Len(entry.text)
                 /\ m.word_count = GetTextMetrics(entry.text).word_count
                 /\ m.audio_format = "mp3"
                 /\ ~IsNone(m.time_to_first_byte)
                 /\ ~IsNone(m.time_to_first_audio)
                 /\ ~IsNone(m.total_synthesis_time)
                 /\ Val(m.time_to_first_byte) < Val(m.time_to_first_audio)
                 /\ Val(m.time_to_first_audio) <= Val(m.total_synthesis_time)

C14_Witness ==
    /\ DemoDispatchEnded
    /\ entry.provider_id = "azure"
    /\ entry.streaming
    /\ entry.text # <<>>
    /\ results[1].success
    /\ Val(results[1].metrics.time_to_first_audio)
         < Val(results[1].metrics.total_synthesis_time)

Delegating == { "google", "azure" }

\* C16: a streaming dispatch to google or azure follows the non-streaming
\* path: its request is a non-streaming request, its body is never read
\* incrementally, and the record it returns has is_streaming = false, an
\* empty chunk_timings, and null chunk_count, avg_chunk_size, min/max/avg
\* chunk delay and playback_jitter.
C16_DelegatedStreaming ==
    entry.streaming
    => /\ \A k \in 1 .. Len(issued) :
            issued[k].backend \in Delegating => ~issued[k].stream
       /\ (~IsNone(frame) /\ F.pid \in Delegating)
          => (pc = "await" /\ ~F.stream /\ ~F.metrics.is_streaming /\ F.chunks = <<>>)
       /\ \A i \in 1 .. Len(results) :
            entry.configs[i].provider_id \in Delegating
            => LET m == results[i].metrics
               IN  /\ ~m.is_streaming
                   /\ m.chunk_timings = <<>>
                   /\ IsNone(m.chunk_count)
                   /\ IsNone(m.avg_chunk_size)
                   /\ \A f \in JitterFields : IsNone(m[f])

C16_Witness ==
    /\ pc = "returned"
    /\ entry.op = "synthesize"
    /\ entry.streaming
    /\ entry.provider_id = "google"
    /\ Len(issued) = 1
    /\ results[1].success
    /\ results[1].has_headers

C18_AdapterFrozen ==
    /\ [](/\ \A pid \in DOMAIN providers :
               providers[pid].demo_mode = ~providers[pid].has_key
          /\ ~IsNone(frame) => ~providers[F.pid].demo_mode
          /\ \A i \in 1 .. Len(results) :
               entry.configs[i].provider_id \in KnownIds
               => (AdapterOf(i).demo_mode
                   <=> results[i].error_message
                         = <<"DEMO MODE: Using simulated metrics">>)
          /\ (pc = "returned" /\ entry.op = "get_voices"
                /\ entry.provider_id \in KnownIds \ { "openai" })
             => (providers[entry.provider_id].demo_mode
                 <=> entry.voices = "demo_voices"))
    /\ [][\A pid \in DOMAIN providers :
             pid \in DOMAIN providers' /\ providers'[pid] = providers[pid]]_vars

C18_Witness ==
    /\ pc = "returned"
    /\ entry.op = "synthesize"
    /\ entry.provider_id = "elevenlabs"
    /\ "elevenlabs" \in credentials
    /\ providers["elevenlabs"].demo_mode
    /\ results[1].success
    /\ issued = <<>>

\* C19: one synthesize call issues at most one vendor request; a request is
\* issued only by the dispatch step; a call that ends in failure after its
\* request ends in the very step that sees the failure, with no further
\* request, and a call that issued a request never returns a simulated result.
C19_NoRetry ==
    /\ [](/\ entry.op = "synthesize" => Len(issued) <= 1
          /\ (pc = "returned" /\ entry.op = "synthesize" /\ Len(issued) = 1)
             => /\ inflight = {}
                /\ results[1].error_message
                     # <<"DEMO MODE: Using simulated metrics">>
                /\ results[1].success => results[1].error_message = <<>>)
    /\ [][/\ (issued' # issued /\ issued' # <<>>)
             => (pc = "dispatch" /\ Len(issued') = Len(issued) + 1)
          /\ (pc \in { "await", "stream" } /\ entry.op = "synthesize"
                /\ pc' \notin { "await", "stream" })
             => (pc' = "returned" /\ Len(results') = 1 /\ issued' = issued)]_vars

C19_Witness ==
    /\ pc = "returned"
    /\ entry.op = "synthesize"
    /\ entry.provider_id = "amazon"
    /\ ~entry.streaming
    /\ Len(issued) = 1
    /\ ~results[1].success
    /\ IsNone(results[1].metrics.time_to_first_byte)

\* the non-null synthesis times of the successful rows, in stored order
SampleTimes == SynthesisTimes(evaluations)

\* v has rank k (counted from 0) in the sample: at most k values are smaller
\* and more than k values are not larger
HasRank(v, k) ==
    /\ Cardinality({ j \in 1 .. Len(SampleTimes) : SampleTimes[j] < v }) <= k
    /\ Cardinality({ j \in 1 .. Len(SampleTimes) : SampleTimes[j] <= v }) > k

\* C20: in both reports, with n non-null synthesis times, the p-th percentile
\* is the value of rank floor(p * n) in ascending order, an index within
\* 0 .. n-1; p95 is reported exactly when n >= 20 and p99 exactly when
\* n >= 100, otherwise absent (n = 10 reports neither, n = 25 reports p95 but
\* not p99).
C20_Percentiles ==
    report.view # "none"
    => LET n == Len(SampleTimes)
       IN  /\ \A p \in { 50, 95, 99 } :
                n >= 1 => PercentileIndex(n, p) \in 0 .. (n - 1)
           /\ IsNone(report.p50) <=> n = 0
           /\ IsNone(report.p95) <=> n < 20
           /\ IsNone(report.p99) <=> n < 100
           /\ n >= 1 => HasRank(Val(report.p50), PercentileIndex(n, 50))
           /\ n >= 20 => HasRank(Val(report.p95), PercentileIndex(n, 95))
           /\ n >= 100 => HasRank(Val(report.p99), PercentileIndex(n, 99))
           /\ n = 10 => (IsNone(report.p95) /\ IsNone(report.p99))
           /\ n = 25 => (~IsNone(report.p95) /\ IsNone(report.p99))

C20_Witness ==
    /\ report.view = "comparison"
    /\ Len(SampleTimes) = 25
    /\ SampleTimes[1] > SampleTimes[3]
    /\ ~IsNone(report.p95)
    /\ IsNone(report.p99)
    /\ Val(report.p95) > Val(report.p50)

\* the non-null values a stored field has over the successful rows
Observed(field) == FieldValues(evaluations, field)

\* the aggregate a report must carry for a field: absent without a non-null
\* value, else the standard statistic (to two decimals)
Expected(stat, field) ==
    IF Observed(field) = <<>> THEN None
    ELSE Some(Round2(CASE stat = "avg" -> Mean(Observed(field))
                       [] stat = "min" -> RatInt(MinSeq(Observed(field)))
                       [] stat = "max" -> RatInt(MaxSeq(Observed(field)))))

\* C21: every reported average, minimum and maximum is the standard
\* statistic over the field's non-null values whenever one exists, also when
\* it is 0 (an average jitter of exactly 0), and is absent exactly when the
\* field has no non-null value.
C21_Aggregates ==
    (report.view # "none" /\ report.found)
    => /\ report.avg_total = Expected("avg", "total_synthesis_time")
       /\ report.avg_jitter = Expected("avg", "playback_jitter")
       /\ report.view = "provider"
          => /\ report.min_total = Expected("min", "total_synthesis_time")
             /\ report.max_total = Expected("max", "total_synthesis_time")

\* C22: for a backend with at least one recorded attempt the reported total
\* is the number of recorded attempts and the reported success rate is
\* successful / total * 100, also when every attempt failed (rate 0).
C22_SuccessRate ==
    (report.view # "none" /\ Len(evaluations) >= 1)
    => /\ report.total_evaluations = Some(Len(evaluations))
       /\ report.success_rate =
              Some(Round2(Rat(CountSuccessful(evaluations) * 100, Len(evaluations))))

\* C23: every result of a dispatch echoes the request: its provider_id is
\* the requested backend id and its voice_id the requested voice id on every
\* path (success, vendor error, transport exception, unknown backend), and
\* for elevenlabs and openai its model_id is the model used.
C23_IdentifiersEchoed ==
    \A i \in 1 .. Len(results) :
        LET r == results[i]
            cfg == entry.configs[i]
        IN  /\ r.provider_id = cfg.provider_id
            /\ r.voice_id = cfg.voice_id
            /\ cfg.provider_id \in { "elevenlabs", "openai" }
               => r.model_id = ModelOf(cfg.provider_id, cfg.options)

\* the adapters the threads have received so far for backend id pid
ReceivedFor(pid) ==
    UNION { { Val(threads[t].received[i]) :
                i \in { j \in 1 .. Len(threads[t].received) :
                          /\ ~IsNone(threads[t].received[j])
                          /\ Val(threads[t].received[j]).provider_id = pid } } :
            t \in DOMAIN threads }

\* C24: when several threads resolve the same not-yet-cached backend id in
\* interleaved get_provider calls, exactly one adapter is constructed for it
\* and every caller, then and later, receives that same instance.
C24_OneInstanceConcurrent ==
    \A pid \in KnownIds :
        /\ constructed[pid] <= 1
        /\ Cardinality(ReceivedFor(pid)) <= 1

\* the increments the vendor delivered to call c: their times since the
\* call's start, and their sizes
OwnTimings(c) ==
    [i \in 1 .. Len(streams.call[c].delivered) |->
        streams.call[c].delivered[i].at - streams.call[c].start]
OwnSizes(c) ==
    [i \in 1 .. Len(streams.call[c].delivered) |-> streams.call[c].delivered[i].size]

\* C25: when streaming calls run concurrently on one adapter instance, each
\* call's chunk_timings, chunk buffer, chunk-size list and first-chunk flag
\* hold that call's own increments only, whatever the interleaving, and so
\* does the result it returns.
C25_CallLocalAccumulators ==
    streams # <<>>
    => \A c \in StreamCalls :
         /\ streams.call[c].pc \in { "await", "stream" }
            => /\ L(c).metrics.chunk_timings = OwnTimings(c)
               /\ L(c).chunks = OwnSizes(c)
               /\ L(c).chunk_sizes = OwnSizes(c)
               /\ L(c).first_chunk_received = (OwnSizes(c) # <<>>)
         /\ streams.call[c].pc = "done"
            => LET r == Val(streams.call[c].result)
               IN  /\ r.metrics.chunk_timings = OwnTimings(c)
                   /\ r.success
                      => /\ r.metrics.chunk_count = Some(Len(OwnSizes(c)))
                         /\ r.metrics.audio_size = Some(SumSeq(OwnSizes(c)))
                         /\ r.audio_data = Some(Audio(SumSeq(OwnSizes(c))))
                         /\ r.metrics.time_to_first_audio =
                                IF OwnSizes(c) = <<>> THEN None
                                ELSE Some(OwnTimings(c)[1])

\* both calls ended successfully after their increments arrived interleaved
C25_Witness ==
    /\ streams # <<>>
    /\ \A c \in { 1, 2 } :
          /\ streams.call[c].pc = "done"
          /\ Val(streams.call[c].result).success
    /\ Len(streams.call[1].delivered) = 2
    /\ Len(streams.call[2].delivered) >= 1
    /\ streams.call[1].delivered[1].at < streams.call[2].delivered[1].at
    /\ streams.call[2].delivered[1].at < streams.call[1].delivered[2].at
    /\ streams.call[1].delivered[1].size # streams.call[2].delivered[1].size
    /\ streams.call[1].start # streams.call[2].start

\* the record with its derived fields as a new record has them
Underived(m) == [f \in DOMAIN m |-> IF f \in DerivedFields THEN None ELSE m[f]]

LiveStreamed(i) ==
    /\ results[i].success
    /\ ~AdapterOf(i).demo_mode
    /\ results[i].metrics.is_streaming
    /\ results[i].metrics.chunk_count # None
    /\ Val(results[i].metrics.chunk_count) >= 1

\* C27: in every successful live streaming result with at least one chunk
\* the captured times are ordered, time_to_first_byte <= time_to_first_audio
\* = chunk_timings[0] <= ... <= chunk_timings[last] <= total_synthesis_time;
\* time_to_first_audio is assigned once and no later chunk overwrites it;
\* and so 0 <= min_chunk_delay <= avg_chunk_delay <= max_chunk_delay.
C27_OrderedTimes ==
    /\ [](\A i \in 1 .. Len(results) :
            LiveStreamed(i)
            => LET m == results[i].metrics
                   t == m.chunk_timings
               IN  /\ Len(t) >= 1
                   /\ Val(m.time_to_first_byte) <= Val(m.time_to_first_audio)
                   /\ m.time_to_first_audio = Some(t[1])
                   /\ NonDecreasing(t)
                   /\ t[Len(t)] <= Val(m.total_synthesis_time)
                   /\ Len(t) >= 2
                      => /\ 0 <= Val(m.min_chunk_delay)
                         /\ RatLE(RatInt(Val(m.min_chunk_delay)), Val(m.avg_chunk_delay))
                         /\ RatLE(Val(m.avg_chunk_delay), RatInt(Val(m.max_chunk_delay))))
    /\ [][(frame # None /\ frame' # None
            /\ Val(frame).metrics.time_to_first_audio # None)
           => Val(frame').metrics.time_to_first_audio
                  = Val(frame).metrics.time_to_first_audio]_vars

\* a live stream of two increments ended, the second later than the first
C27_Witness ==
    /\ pc = "returned"
    /\ Len(results) = 1
    /\ LiveStreamed(1)
    /\ Len(results[1].metrics.chunk_timings) = 2
    /\ results[1].metrics.chunk_timings[1] < results[1].metrics.chunk_timings[2]
    /\ Val(results[1].metrics.time_to_first_byte)
           < Val(results[1].metrics.time_to_first_audio)

\* result i is a successful result of a streaming call on a backend that
\* reads its body incrementally
NativeStreamed(i) ==
    /\ results[i].success
    /\ results[i].metrics.is_streaming
    /\ entry.configs[i].provider_id \in NativeStreaming

\* C28 as claimed: every successful streaming result on a natively streaming
\* backend has chunk_count >= 1 and a non-null time_to_first_audio, also
\* when the vendor answers with a success status and an empty body.
C28_AtLeastOneChunk_AsClaimed ==
    \A i \in 1 .. Len(results) :
        NativeStreamed(i)
        => /\ results[i].metrics.chunk_count # None
           /\ Val(results[i].metrics.chunk_count) >= 1
           /\ results[i].metrics.time_to_first_audio # None

\* C28 amended: a successful live streaming result on a natively streaming
\* backend has chunk_count = the number of non-empty increments read, 0 for
\* an empty body, and time_to_first_audio is non-null exactly when
\* chunk_count >= 1 (then it is the first chunk timing); a successful demo
\* streaming result has a null chunk_count and a simulated time_to_first_audio.
C28_ChunkCountIsIncrements ==
    \A i \in 1 .. Len(results) :
        NativeStreamed(i)
        => LET m == results[i].metrics
           IN  IF AdapterOf(i).demo_mode
               THEN m.chunk_count = None /\ m.time_to_first_audio # None
               ELSE /\ m.chunk_count = Some(Len(m.chunk_timings))
                    /\ (m.time_to_first_audio # None) <=> (Len(m.chunk_timings) >= 1)
                    /\ Len(m.chunk_timings) >= 1
                       => m.time_to_first_audio = Some(m.chunk_timings[1])

\* a live streaming call ended with success on an empty body
C28_Witness ==
    /\ pc = "returned"
    /\ Len(results) = 1
    /\ NativeStreamed(1)
    /\ ~AdapterOf(1).demo_mode
    /\ results[1].metrics.chunk_count = Some(0)
    /\ results[1].metrics.time_to_first_audio = None
    /\ results[1].metrics.time_to_first_byte # None

\* C29 as claimed: for every successful result, live and demo,
\* metrics.audio_size is the byte length of audio_data and decoding
\* audio_base64 gives exactly audio_data.
C29_AudioFields_AsClaimed ==
    payload.path # "none"
    => /\ payload.audio_size = Len(payload.audio_data)
       /\ B64DecodeChars(payload.audio_base64) = Some(payload.audio_data)

\* C29 amended: for every successful result decoding audio_base64 gives
\* exactly audio_data; audio_size is the byte length of audio_data for a live
\* result, while for a demo result it is the simulated len(text) * k, which is
\* smaller than the length of the placeholder audio returned.
C29_AudioFields_Live ==
    payload.path # "none"
    => /\ B64DecodeChars(payload.audio_base64) = Some(payload.audio_data)
       /\ payload.path # "demo" => payload.audio_size = Len(payload.audio_data)
       /\ payload.path = "demo"
          => /\ payload.audio_size < Len(payload.audio_data)
             /\ \E text \in Texts :
                   Len(payload.audio_data) = GenerateDemoAudio(text).len

\* a live body whose length is not a multiple of three, so its text is padded
C29_Witness ==
    /\ payload.path = "stream"
    /\ Len(payload.audio_data) = 4
    /\ payload.audio_data[1] = 255
    /\ payload.audio_data[4] = 77
    /\ Len(payload.audio_base64) = 8
    /\ payload.audio_base64[8] = "="

\* C30 (as claimed): a session created by the batch endpoint is 'running'
\* while its loop runs; once the request has ended, after the loop or through
\* an error raised while processing a configuration, the session is
\* 'completed' or 'failed'; and a 'completed' session has exactly one stored
\* evaluation per submitted configuration, in submission order.
SessionEnded == session.status # "none" /\ session.pc \in { "responded", "raised" }

SessionStartsRunning == session.pc = "loop" => session.status = "running"

SessionCompletedInOrder ==
    session.status = "completed" =>
        /\ Len(session.evaluations) = Len(session.providers)
        /\ \A i \in 1 .. Len(session.providers) :
              /\ session.evaluations[i].provider = session.providers[i].provider_id
              /\ Some(session.evaluations[i].voice_id_str) = session.providers[i].voice_id
              /\ session.evaluations[i].request_params = session.providers[i].options

C30_SessionLeavesRunning ==
    /\ SessionStartsRunning
    /\ SessionEnded => session.status \in { "completed", "failed" }
    /\ SessionCompletedInOrder

====
